---------------------------- MODULE Spec2Model ----------------------------
(***************************************************************************)
(* A model of the game engine of src/src/app/page.tsx (TetrisGame): the    *)
(* piece catalog, the 7-bag generator, validity checking, placement, row   *)
(* clearing, movement, rotation with wall kicks, hard drop, locking,       *)
(* scoring, levels, pause, start and the deferred board commit of the      *)
(* line-clear animation.                                                   *)
(*                                                                         *)
(* Indices: the source indexes rows and columns from 0; TLA+ sequences     *)
(* start at 1, so the source's board[y][x] is board[y + 1][x + 1] here.    *)
(* Every handler runs to completion on the state of the latest render and  *)
(* its state updates are applied together when it returns; the only        *)
(* suspended computation is animateLineClear, whose final setBoard is the  *)
(* action AnimationDone.  SpecRace adds the key events that are handled    *)
(* after a timer callback and before its updates are rendered.             *)
(***************************************************************************)
EXTENDS Integers, Sequences, FiniteSets, TLC

VARIABLES
    board,            \* useState board: BOARD_HEIGHT rows of BOARD_WIDTH cells
    currentPiece,     \* useState currentPiece (NoPiece is the source's null)
    currentPosition,  \* useState currentPosition {x, y}
    nextPiece,        \* useState nextPiece (NoPiece is the source's null)
    score,            \* useState score
    level,            \* useState level
    lines,            \* useState lines
    gameOver,         \* useState gameOver
    isPaused,         \* useState isPaused
    gameStarted,      \* useState gameStarted
    startLevel,       \* useState startLevel
    bag,              \* bagRef.current
    isClearing,       \* useState isClearing
    pending,          \* boards held by running animateLineClear calls, oldest first
    script,           \* intents the player has yet to enter from the opening script
    perms,            \* shuffle outcomes of the refills during the opening script
    steps,            \* number of state-changing steps taken after the opening script
    last              \* record of the last operation applied and its outcome

vars == <<board, currentPiece, currentPosition, nextPiece, score, level, lines,
          gameOver, isPaused, gameStarted, startLevel, bag, isClearing, pending,
          script, perms, steps, last>>

---------------------------------------------------------------------------
(* Program constants *)

BOARD_WIDTH == 10

BOARD_HEIGHT == 20

\* The empty-cell sentinel (the source's number 0, the only falsy cell value).
EmptyCell == "0"

TETROMINO_KEYS == <<"I", "O", "T", "S", "Z", "J", "L">>

TETROMINOS(key) ==
    CASE key = "I" -> [shape |-> <<<<1, 1, 1, 1>>>>, color |-> "cyan"]
      [] key = "O" -> [shape |-> <<<<1, 1>>, <<1, 1>>>>, color |-> "yellow"]
      [] key = "T" -> [shape |-> <<<<0, 1, 0>>, <<1, 1, 1>>>>, color |-> "purple"]
      [] key = "S" -> [shape |-> <<<<0, 1, 1>>, <<1, 1, 0>>>>, color |-> "green"]
      [] key = "Z" -> [shape |-> <<<<1, 1, 0>>, <<0, 1, 1>>>>, color |-> "red"]
      [] key = "J" -> [shape |-> <<<<1, 0, 0>>, <<1, 1, 1>>>>, color |-> "blue"]
      [] key = "L" -> [shape |-> <<<<0, 0, 1>>, <<1, 1, 1>>>>, color |-> "orange"]

POINTS_SINGLE == 100

POINTS_DOUBLE == 300

POINTS_TRIPLE == 500

POINTS_TETRIS == 800

POINTS_SOFT_DROP == 1

POINTS_HARD_DROP == 2

\* The source's null piece.
NoPiece == [shape |-> <<>>, color |-> "", key |-> ""]

\* A piece of the catalog, as createRandomPiece builds it.
CatalogPiece(key) ==
    [shape |-> TETROMINOS(key).shape, color |-> TETROMINOS(key).color, key |-> key]

EmptyRow == [c \in 1..BOARD_WIDTH |-> EmptyCell]

EmptyBoard == [r \in 1..BOARD_HEIGHT |-> EmptyRow]

\* JavaScript truthiness of a board cell.
Truthy(cell) == cell # EmptyCell /\ cell # ""

---------------------------------------------------------------------------
(* Pure functions *)

calcLevel(nLines, nStartLevel) == (nLines \div 10) + (nStartLevel - 1) + 1

\* Mutant: the rows are reversed but rows and columns are not exchanged.
rotatePiece_RowsReversed(piece) ==
    LET h == Len(piece.shape)
        w == Len(piece.shape[1])
        rotated == [i \in 1..h |-> [j \in 1..w |-> piece.shape[h + 1 - i][j]]]
    IN  [piece EXCEPT !.shape = rotated]

\* Mutant: the quarter turn goes counter-clockwise.
rotatePiece_CounterClockwise(piece) ==
    LET h == Len(piece.shape)
        w == Len(piece.shape[1])
        rotated == [i \in 1..w |-> [j \in 1..h |-> piece.shape[j][w + 1 - i]]]
    IN  [piece EXCEPT !.shape = rotated]

\* rotated[i][j] = shape[h-1-j][i]: column i of the shape, read bottom-up.
rotatePiece(piece) ==
    LET h == Len(piece.shape)
        w == Len(piece.shape[1])
        rotated == [i \in 1..w |-> [j \in 1..h |-> piece.shape[h + 1 - j][i]]]
    IN  [piece EXCEPT !.shape = rotated]

\* A call of rotatePiece: the piece returned, and the caller's piece after the
\* call; the rows of rotated and the object {...piece, shape: rotated} are new.
rotatePieceCall(piece) ==
    [result |-> rotatePiece(piece), argument |-> piece]

\* The two nested loops of isValidPosition from shape cell (y, x) on, in
\* row-major order, returning at the first offending cell.
RECURSIVE ScanValid(_, _, _, _, _)
ScanValid(b, piece, pos, y, x) ==
    IF y >= Len(piece.shape) THEN TRUE
    ELSE IF x >= Len(piece.shape[y + 1]) THEN ScanValid(b, piece, pos, y + 1, 0)
    ELSE IF piece.shape[y + 1][x + 1] # 0
    THEN LET newX == pos.x + x
             newY == pos.y + y
         IN  IF newX < 0 \/ newX >= BOARD_WIDTH \/ newY >= BOARD_HEIGHT THEN FALSE
             ELSE IF newY >= 0 /\ Truthy(b[newY + 1][newX + 1]) THEN FALSE
             ELSE ScanValid(b, piece, pos, y, x + 1)
    ELSE ScanValid(b, piece, pos, y, x + 1)

\* Mutant: a cell above the board (row < 0) is rejected.
RECURSIVE ScanValidNoAbove(_, _, _, _, _)
ScanValidNoAbove(b, piece, pos, y, x) ==
    IF y >= Len(piece.shape) THEN TRUE
    ELSE IF x >= Len(piece.shape[y + 1]) THEN ScanValidNoAbove(b, piece, pos, y + 1, 0)
    ELSE IF piece.shape[y + 1][x + 1] # 0
    THEN LET newX == pos.x + x
             newY == pos.y + y
         IN  IF newX < 0 \/ newX >= BOARD_WIDTH \/ newY >= BOARD_HEIGHT THEN FALSE
             ELSE IF newY < 0 \/ Truthy(b[newY + 1][newX + 1]) THEN FALSE
             ELSE ScanValidNoAbove(b, piece, pos, y, x + 1)
    ELSE ScanValidNoAbove(b, piece, pos, y, x + 1)

isValidPosition_NoAbove(b, piece, pos) == ScanValidNoAbove(b, piece, pos, 0, 0)

isValidPosition(b, piece, pos) == ScanValid(b, piece, pos, 0, 0)

\* The cells (row, column), from 0, that the piece occupies at pos.
PieceCells(piece, pos) ==
    {<<pos.y + y - 1, pos.x + x - 1>> :
        <<y, x>> \in {yx \in (1..Len(piece.shape)) \X (1..Len(piece.shape[1])) :
                        piece.shape[yx[1]][yx[2]] # 0}}

\* Mutant: the guard boardY >= 0 is missing and a cell above the board lands
\* in the top row.
placePiece_Clamped(b, piece, pos) ==
    LET cells == {<<IF cell[1] < 0 THEN 0 ELSE cell[1], cell[2]>> :
                     cell \in PieceCells(piece, pos)}
    IN  [r \in 1..Len(b) |->
            [c \in 1..Len(b[r]) |->
                IF <<r - 1, c - 1>> \in cells THEN piece.color ELSE b[r][c]]]

\* A copy of the board with the piece's cells of row >= 0 set to its color.
placePiece(b, piece, pos) ==
    LET cells == PieceCells(piece, pos)
    IN  [r \in 1..Len(b) |->
            [c \in 1..Len(b[r]) |->
                IF <<r - 1, c - 1>> \in cells THEN piece.color ELSE b[r][c]]]

\* Mutant: the rows are not copied, the writes reach the caller's board.
placePieceCall_InPlace(b, piece, pos) ==
    [result |-> placePiece(b, piece, pos), argument |-> placePiece(b, piece, pos)]

\* A call of placePiece: the board returned, and the caller's board after the
\* call, which the writes do not reach since board.map(row => [...row]) copies
\* every row.
placePieceCall(b, piece, pos) ==
    [result |-> placePiece(b, piece, pos), argument |-> b]

\* row.every(cell => cell && typeof cell !== 'object'): cells are never objects.
isFull(row) == \A c \in 1..Len(row) : Truthy(row[c])

\* Mutant: only the first full row is removed.
clearLines_FirstOnly(b) ==
    LET fullIdx == {i \in 1..Len(b) : isFull(b[i])}
        first == IF fullIdx = {} THEN 0
                 ELSE CHOOSE i \in fullIdx : \A j \in fullIdx : i <= j
        kept == SelectSeq([i \in 1..Len(b) |-> i], LAMBDA i : i # first)
        newBoard == [i \in 1..Len(kept) |-> b[kept[i]]]
        clearedLines == BOARD_HEIGHT - Len(newBoard)
        emptyRows == [i \in 1..clearedLines |-> EmptyRow]
    IN  [board |-> emptyRows \o newBoard,
         clearedLines |-> clearedLines,
         clearedRowIdxs |-> IF first = 0 THEN <<>> ELSE <<first - 1>>]

\* Mutant: the empty rows are added below the kept rows.
clearLines_Below(b) ==
    LET newBoard == SelectSeq(b, LAMBDA row : ~isFull(row))
        clearedLines == BOARD_HEIGHT - Len(newBoard)
        emptyRows == [i \in 1..clearedLines |-> EmptyRow]
    IN  [board |-> newBoard \o emptyRows,
         clearedLines |-> clearedLines,
         clearedRowIdxs |->
            SelectSeq([i \in 1..Len(b) |-> i - 1], LAMBDA i : isFull(b[i + 1]))]

clearLines(b) ==
    LET newBoard == SelectSeq(b, LAMBDA row : ~isFull(row))
        clearedLines == BOARD_HEIGHT - Len(newBoard)
        emptyRows == [i \in 1..clearedLines |-> EmptyRow]
    IN  [board |-> emptyRows \o newBoard,
         clearedLines |-> clearedLines,
         clearedRowIdxs |->
            SelectSeq([i \in 1..Len(b) |-> i - 1], LAMBDA i : isFull(b[i + 1]))]

---------------------------------------------------------------------------
(* The record of the last operation *)

\* op: the operation; result: its outcome; ok: a boolean result; cleared, rows:
\* clearedLines and clearedRowIdxs; dist: rows descended by a hard drop; kick:
\* index (from 1) of the wall kick taken, 0 for none; dx, dy, player: a move's
\* arguments; input: the board a pure function was applied to.
Ev(op, result) ==
    [op |-> op, result |-> result, ok |-> FALSE, cleared |-> 0, rows |-> <<>>,
     dist |-> 0, kick |-> 0, dx |-> 0, dy |-> 0, player |-> FALSE, input |-> <<>>]

NoEv == Ev("none", "none")

---------------------------------------------------------------------------
(* The session and its handlers.  A session s is the record of the          *)
(* component's state; a handler maps the session of the latest render to    *)
(* the session after its state updates.  shuffle is the order that          *)
(* [...TETROMINO_KEYS].sort(() => Math.random() - 0.5) produces if the      *)
(* handler refills the bag.                                                 *)

\* The session of a freshly mounted component (the useState initial values).
Fresh ==
    [board |-> EmptyBoard, currentPiece |-> NoPiece,
     currentPosition |-> [x |-> 0, y |-> 0], nextPiece |-> NoPiece,
     score |-> 0, level |-> 1, lines |-> 0, gameOver |-> FALSE,
     isPaused |-> FALSE, gameStarted |-> FALSE, startLevel |-> 1,
     bag |-> <<>>, isClearing |-> FALSE, pending |-> <<>>, last |-> NoEv]

\* Mutant: the bag is refilled when one key is left, which is lost.
createRandomPiece_RefillsEarly(bagIn, shuffle) ==
    LET filled == IF Len(bagIn) <= 1 THEN shuffle ELSE bagIn
        randomKey == filled[Len(filled)]
    IN  [piece |-> CatalogPiece(randomKey),
         bag |-> SubSeq(filled, 1, Len(filled) - 1)]

\* Mutant: the bag is refilled when two keys are left, which are lost.
createRandomPiece_RefillsAtTwo(bagIn, shuffle) ==
    LET filled == IF Len(bagIn) <= 2 THEN shuffle ELSE bagIn
        randomKey == filled[Len(filled)]
    IN  [piece |-> CatalogPiece(randomKey),
         bag |-> SubSeq(filled, 1, Len(filled) - 1)]

\* bagRef.current after the refill (if empty) and the pop, and the piece popped.
createRandomPiece(bagIn, shuffle) ==
    LET filled == IF Len(bagIn) = 0 THEN shuffle ELSE bagIn
        randomKey == filled[Len(filled)]
    IN  [piece |-> CatalogPiece(randomKey),
         bag |-> SubSeq(filled, 1, Len(filled) - 1)]

\* Mutant: the spawn column is not centred.
spawnNewPiece_Left(s, bagIn, shuffle) ==
    LET first == IF s.nextPiece # NoPiece
                 THEN [piece |-> s.nextPiece, bag |-> bagIn]
                 ELSE createRandomPiece(bagIn, shuffle)
        second == createRandomPiece(first.bag, shuffle)
    IN  [piece |-> first.piece,
         startPos |-> [x |-> 0, y |-> 0],
         next |-> second.piece,
         bag |-> second.bag]

\* nextPiece is the one of the latest render; the bag is the ref's current value.
spawnNewPiece(s, bagIn, shuffle) ==
    LET first == IF s.nextPiece # NoPiece
                 THEN [piece |-> s.nextPiece, bag |-> bagIn]
                 ELSE createRandomPiece(bagIn, shuffle)
        second == createRandomPiece(first.bag, shuffle)
    IN  [piece |-> first.piece,
         startPos |-> [x |-> (BOARD_WIDTH - Len(first.piece.shape[1])) \div 2,
                       y |-> 0],
         next |-> second.piece,
         bag |-> second.bag]

\* The synchronous part of animateLineClear: isClearing is set and newBoard is
\* held until the sweep of BOARD_WIDTH + 1 timeouts has run (AnimationDone).
animateLineClear(s, rows, newBoard) ==
    [s EXCEPT !.isClearing = TRUE, !.pending = Append(@, newBoard)]

\* The end of the oldest running animateLineClear: setIsClearing(false) and
\* setBoard(newBoard).
animationDone(s) ==
    [s EXCEPT !.board = Head(s.pending),
              !.pending = Tail(@),
              !.isClearing = FALSE,
              !.last = Ev("animateLineClear", "committed")]

\* Mutant: a single row is paid as a double.
LinePoints_Shifted(clearedLines) ==
    CASE clearedLines = 1 -> POINTS_DOUBLE
      [] clearedLines = 2 -> POINTS_DOUBLE
      [] clearedLines = 3 -> POINTS_TRIPLE
      [] clearedLines = 4 -> POINTS_TETRIS
      [] OTHER -> 0

\* Mutant: cleared rows are charged, not paid.
LinePoints_Charged(clearedLines) ==
    CASE clearedLines = 1 -> 0 - POINTS_SINGLE
      [] clearedLines = 2 -> 0 - POINTS_DOUBLE
      [] clearedLines = 3 -> 0 - POINTS_TRIPLE
      [] clearedLines = 4 -> 0 - POINTS_TETRIS
      [] OTHER -> 0

\* The switch on clearedLines.
LinePoints(clearedLines) ==
    CASE clearedLines = 1 -> POINTS_SINGLE
      [] clearedLines = 2 -> POINTS_DOUBLE
      [] clearedLines = 3 -> POINTS_TRIPLE
      [] clearedLines = 4 -> POINTS_TETRIS
      [] OTHER -> 0

\* Mutant: the soft-drop point is paid without the isPlayerMove test.
movePiece_EveryDescentScores(s, dx, dy, isPlayerMove, shuffle) ==
    LET ev(result) == [Ev("movePiece", result) EXCEPT
                          !.dx = dx, !.dy = dy, !.player = isPlayerMove]
    IN
    IF s.currentPiece = NoPiece \/ s.gameOver \/ s.isPaused \/ s.isClearing
    THEN [s EXCEPT !.last = ev("ignored")]
    ELSE
    LET newPos == [x |-> s.currentPosition.x + dx, y |-> s.currentPosition.y + dy]
    IN
    IF isValidPosition(s.board, s.currentPiece, newPos)
    THEN [s EXCEPT !.currentPosition = newPos,
                   !.score = IF dy > 0
                             THEN @ + POINTS_SOFT_DROP ELSE @,
                   !.last = [ev("moved") EXCEPT !.ok = TRUE]]
    ELSE IF dy > 0
    THEN LET newBoard == placePiece(s.board, s.currentPiece, s.currentPosition)
             r == clearLines(newBoard)
             s1 == IF r.clearedLines > 0
                   THEN animateLineClear(s, r.clearedRowIdxs, r.board)
                   ELSE [s EXCEPT !.board = r.board]
             newLines == s.lines + r.clearedLines
             newLevel == calcLevel(newLines, s.startLevel)
             sp == spawnNewPiece(s, s.bag, shuffle)
             over == ~isValidPosition(r.board, sp.piece, sp.startPos)
         IN  [s1 EXCEPT
                 !.lines = @ + r.clearedLines,
                 !.score = IF r.clearedLines > 0
                           THEN @ + LinePoints(r.clearedLines) * s.level ELSE @,
                 !.level = newLevel,
                 !.currentPiece = sp.piece,
                 !.currentPosition = sp.startPos,
                 !.nextPiece = sp.next,
                 !.bag = sp.bag,
                 !.gameOver = IF over THEN TRUE ELSE @,
                 !.gameStarted = IF over THEN FALSE ELSE @,
                 !.last = [ev("locked") EXCEPT !.cleared = r.clearedLines,
                                               !.rows = r.clearedRowIdxs]]
    ELSE [s EXCEPT !.last = ev("blocked")]

\* Mutant: a move blocked sideways locks the piece too.
movePiece_LocksSideways(s, dx, dy, isPlayerMove, shuffle) ==
    LET ev(result) == [Ev("movePiece", result) EXCEPT
                          !.dx = dx, !.dy = dy, !.player = isPlayerMove]
    IN
    IF s.currentPiece = NoPiece \/ s.gameOver \/ s.isPaused \/ s.isClearing
    THEN [s EXCEPT !.last = ev("ignored")]
    ELSE
    LET newPos == [x |-> s.currentPosition.x + dx, y |-> s.currentPosition.y + dy]
    IN
    IF isValidPosition(s.board, s.currentPiece, newPos)
    THEN [s EXCEPT !.currentPosition = newPos,
                   !.score = IF isPlayerMove /\ dy > 0
                             THEN @ + POINTS_SOFT_DROP ELSE @,
                   !.last = [ev("moved") EXCEPT !.ok = TRUE]]
    ELSE IF dy >= 0
    THEN LET newBoard == placePiece(s.board, s.currentPiece, s.currentPosition)
             r == clearLines(newBoard)
             s1 == IF r.clearedLines > 0
                   THEN animateLineClear(s, r.clearedRowIdxs, r.board)
                   ELSE [s EXCEPT !.board = r.board]
             newLines == s.lines + r.clearedLines
             newLevel == calcLevel(newLines, s.startLevel)
             sp == spawnNewPiece(s, s.bag, shuffle)
             over == ~isValidPosition(r.board, sp.piece, sp.startPos)
         IN  [s1 EXCEPT
                 !.lines = @ + r.clearedLines,
                 !.score = IF r.clearedLines > 0
                           THEN @ + LinePoints(r.clearedLines) * s.level ELSE @,
                 !.level = newLevel,
                 !.currentPiece = sp.piece,
                 !.currentPosition = sp.startPos,
                 !.nextPiece = sp.next,
                 !.bag = sp.bag,
                 !.gameOver = IF over THEN TRUE ELSE @,
                 !.gameStarted = IF over THEN FALSE ELSE @,
                 !.last = [ev("locked") EXCEPT !.cleared = r.clearedLines,
                                               !.rows = r.clearedRowIdxs]]
    ELSE [s EXCEPT !.last = ev("blocked")]

\* Mutant: only a player's downward move locks a landed piece.
movePiece_OnlyPlayerLocks(s, dx, dy, isPlayerMove, shuffle) ==
    LET ev(result) == [Ev("movePiece", result) EXCEPT
                          !.dx = dx, !.dy = dy, !.player = isPlayerMove]
    IN
    IF s.currentPiece = NoPiece \/ s.gameOver \/ s.isPaused \/ s.isClearing
    THEN [s EXCEPT !.last = ev("ignored")]
    ELSE
    LET newPos == [x |-> s.currentPosition.x + dx, y |-> s.currentPosition.y + dy]
    IN
    IF isValidPosition(s.board, s.currentPiece, newPos)
    THEN [s EXCEPT !.currentPosition = newPos,
                   !.score = IF isPlayerMove /\ dy > 0
                             THEN @ + POINTS_SOFT_DROP ELSE @,
                   !.last = [ev("moved") EXCEPT !.ok = TRUE]]
    ELSE IF dy > 0 /\ isPlayerMove
    THEN LET newBoard == placePiece(s.board, s.currentPiece, s.currentPosition)
             r == clearLines(newBoard)
             s1 == IF r.clearedLines > 0
                   THEN animateLineClear(s, r.clearedRowIdxs, r.board)
                   ELSE [s EXCEPT !.board = r.board]
             newLines == s.lines + r.clearedLines
             newLevel == calcLevel(newLines, s.startLevel)
             sp == spawnNewPiece(s, s.bag, shuffle)
             over == ~isValidPosition(r.board, sp.piece, sp.startPos)
         IN  [s1 EXCEPT
                 !.lines = @ + r.clearedLines,
                 !.score = IF r.clearedLines > 0
                           THEN @ + LinePoints(r.clearedLines) * s.level ELSE @,
                 !.level = newLevel,
                 !.currentPiece = sp.piece,
                 !.currentPosition = sp.startPos,
                 !.nextPiece = sp.next,
                 !.bag = sp.bag,
                 !.gameOver = IF over THEN TRUE ELSE @,
                 !.gameStarted = IF over THEN FALSE ELSE @,
                 !.last = [ev("locked") EXCEPT !.cleared = r.clearedLines,
                                               !.rows = r.clearedRowIdxs]]
    ELSE [s EXCEPT !.last = ev("blocked")]

movePiece(s, dx, dy, isPlayerMove, shuffle) ==
    LET ev(result) == [Ev("movePiece", result) EXCEPT
                          !.dx = dx, !.dy = dy, !.player = isPlayerMove]
    IN
    IF s.currentPiece = NoPiece \/ s.gameOver \/ s.isPaused \/ s.isClearing
    THEN [s EXCEPT !.last = ev("ignored")]
    ELSE
    LET newPos == [x |-> s.currentPosition.x + dx, y |-> s.currentPosition.y + dy]
    IN
    IF isValidPosition(s.board, s.currentPiece, newPos)
    THEN [s EXCEPT !.currentPosition = newPos,
                   !.score = IF isPlayerMove /\ dy > 0
                             THEN @ + POINTS_SOFT_DROP ELSE @,
                   !.last = [ev("moved") EXCEPT !.ok = TRUE]]
    ELSE IF dy > 0
    THEN LET newBoard == placePiece(s.board, s.currentPiece, s.currentPosition)
             r == clearLines(newBoard)
             s1 == IF r.clearedLines > 0
                   THEN animateLineClear(s, r.clearedRowIdxs, r.board)
                   ELSE [s EXCEPT !.board = r.board]
             newLines == s.lines + r.clearedLines
             newLevel == calcLevel(newLines, s.startLevel)
             sp == spawnNewPiece(s, s.bag, shuffle)
             over == ~isValidPosition(r.board, sp.piece, sp.startPos)
         IN  [s1 EXCEPT
                 !.lines = @ + r.clearedLines,
                 !.score = IF r.clearedLines > 0
                           THEN @ + LinePoints(r.clearedLines) * s.level ELSE @,
                 !.level = newLevel,
                 !.currentPiece = sp.piece,
                 !.currentPosition = sp.startPos,
                 !.nextPiece = sp.next,
                 !.bag = sp.bag,
                 !.gameOver = IF over THEN TRUE ELSE @,
                 !.gameStarted = IF over THEN FALSE ELSE @,
                 !.last = [ev("locked") EXCEPT !.cleared = r.clearedLines,
                                               !.rows = r.clearedRowIdxs]]
    ELSE [s EXCEPT !.last = ev("blocked")]

\* Mutant: the wall kicks are tried in the reverse order.
wallKicks_Reversed ==
    <<[x |-> 1, y |-> -1], [x |-> -1, y |-> -1], [x |-> 0, y |-> -1],
      [x |-> 1, y |-> 0], [x |-> -1, y |-> 0], [x |-> 0, y |-> 0]>>

\* Mutant: the last three kicks go one row down.
wallKicks_Downward ==
    <<[x |-> 0, y |-> 0], [x |-> -1, y |-> 0], [x |-> 1, y |-> 0],
      [x |-> 0, y |-> 1], [x |-> -1, y |-> 1], [x |-> 1, y |-> 1]>>

\* The wall kicks, in the order rotatePieceHandler tries them.
wallKicks ==
    <<[x |-> 0, y |-> 0], [x |-> -1, y |-> 0], [x |-> 1, y |-> 0],
      [x |-> 0, y |-> -1], [x |-> -1, y |-> -1], [x |-> 1, y |-> -1]>>

\* Mutant: when no kick is valid the rotation is applied in place.
RECURSIVE FirstKick_OrInPlace(_, _, _, _)
FirstKick_OrInPlace(b, rotatedPiece, pos, i) ==
    IF i > 6 THEN 1
    ELSE IF isValidPosition(b, rotatedPiece,
                            [x |-> pos.x + (<<0, -1, 1, 0, -1, 1>>)[i],
                             y |-> pos.y + (<<0, 0, 0, -1, -1, -1>>)[i]])
    THEN i
    ELSE FirstKick_OrInPlace(b, rotatedPiece, pos, i + 1)

\* The for loop over wallKicks from index i on: the index of the kick taken, 0
\* when the loop ends without one.
RECURSIVE FirstKick(_, _, _, _)
FirstKick(b, rotatedPiece, pos, i) ==
    IF i > Len(wallKicks) THEN 0
    ELSE IF isValidPosition(b, rotatedPiece,
                            [x |-> pos.x + wallKicks[i].x, y |-> pos.y + wallKicks[i].y])
    THEN i
    ELSE FirstKick(b, rotatedPiece, pos, i + 1)

rotatePieceHandler(s) ==
    IF s.currentPiece = NoPiece \/ s.gameOver \/ s.isPaused
    THEN [s EXCEPT !.last = Ev("rotatePieceHandler", "ignored")]
    ELSE
    LET rotatedPiece == rotatePiece(s.currentPiece)
        i == FirstKick(s.board, rotatedPiece, s.currentPosition, 1)
    IN  IF i = 0
        THEN [s EXCEPT !.last = Ev("rotatePieceHandler", "rejected")]
        ELSE [s EXCEPT
                 !.currentPiece = rotatedPiece,
                 !.currentPosition = [x |-> @.x + wallKicks[i].x,
                                      y |-> @.y + wallKicks[i].y],
                 !.last = [Ev("rotatePieceHandler", "rotated") EXCEPT
                              !.ok = TRUE, !.kick = i]]

handleRotate(s) ==
    IF s.currentPiece = NoPiece \/ s.gameOver \/ s.isPaused
    THEN [s EXCEPT !.last = Ev("rotatePieceHandler", "ignored")]
    ELSE rotatePieceHandler(s)

\* Mutant: the spawned piece is tried on the board before its rows are cleared.
finishHardDrop_PreClear(s, newY, dropDistance, shuffle) ==
    LET newBoard == placePiece(s.board, s.currentPiece,
                               [s.currentPosition EXCEPT !.y = newY])
        r == clearLines(newBoard)
        s1 == IF r.clearedLines > 0
              THEN animateLineClear(s, r.clearedRowIdxs, r.board)
              ELSE [s EXCEPT !.board = r.board]
        newLines == s.lines + r.clearedLines
        newLevel == calcLevel(newLines, s.startLevel)
        sp == spawnNewPiece(s, s.bag, shuffle)
        over == ~isValidPosition(newBoard, sp.piece, sp.startPos)
    IN  [s1 EXCEPT
            !.score = (@ + dropDistance * POINTS_HARD_DROP)
                      + (IF r.clearedLines > 0
                         THEN LinePoints(r.clearedLines) * s.level ELSE 0),
            !.lines = @ + r.clearedLines,
            !.level = newLevel,
            !.currentPiece = sp.piece,
            !.currentPosition = sp.startPos,
            !.nextPiece = sp.next,
            !.bag = sp.bag,
            !.gameOver = IF over THEN TRUE ELSE @,
            !.gameStarted = IF over THEN FALSE ELSE @,
            !.last = [Ev("dropPiece", "locked") EXCEPT
                         !.cleared = r.clearedLines,
                         !.rows = r.clearedRowIdxs,
                         !.dist = dropDistance]]

\* Mutant: the piece whose spawn is blocked does not become the current piece.
finishHardDrop_NoPieceWhenOver(s, newY, dropDistance, shuffle) ==
    LET newBoard == placePiece(s.board, s.currentPiece,
                               [s.currentPosition EXCEPT !.y = newY])
        r == clearLines(newBoard)
        s1 == IF r.clearedLines > 0
              THEN animateLineClear(s, r.clearedRowIdxs, r.board)
              ELSE [s EXCEPT !.board = r.board]
        newLines == s.lines + r.clearedLines
        newLevel == calcLevel(newLines, s.startLevel)
        sp == spawnNewPiece(s, s.bag, shuffle)
        over == ~isValidPosition(r.board, sp.piece, sp.startPos)
    IN  [s1 EXCEPT
            !.score = (@ + dropDistance * POINTS_HARD_DROP)
                      + (IF r.clearedLines > 0
                         THEN LinePoints(r.clearedLines) * s.level ELSE 0),
            !.lines = @ + r.clearedLines,
            !.level = newLevel,
            !.currentPiece = IF over THEN NoPiece ELSE sp.piece,
            !.currentPosition = sp.startPos,
            !.nextPiece = sp.next,
            !.bag = sp.bag,
            !.gameOver = IF over THEN TRUE ELSE @,
            !.gameStarted = IF over THEN FALSE ELSE @,
            !.last = [Ev("dropPiece", "locked") EXCEPT
                         !.cleared = r.clearedLines,
                         !.rows = r.clearedRowIdxs,
                         !.dist = dropDistance]]

finishHardDrop(s, newY, dropDistance, shuffle) ==
    LET newBoard == placePiece(s.board, s.currentPiece,
                               [s.currentPosition EXCEPT !.y = newY])
        r == clearLines(newBoard)
        s1 == IF r.clearedLines > 0
              THEN animateLineClear(s, r.clearedRowIdxs, r.board)
              ELSE [s EXCEPT !.board = r.board]
        newLines == s.lines + r.clearedLines
        newLevel == calcLevel(newLines, s.startLevel)
        sp == spawnNewPiece(s, s.bag, shuffle)
        over == ~isValidPosition(r.board, sp.piece, sp.startPos)
    IN  [s1 EXCEPT
            !.score = (@ + dropDistance * POINTS_HARD_DROP)
                      + (IF r.clearedLines > 0
                         THEN LinePoints(r.clearedLines) * s.level ELSE 0),
            !.lines = @ + r.clearedLines,
            !.level = newLevel,
            !.currentPiece = sp.piece,
            !.currentPosition = sp.startPos,
            !.nextPiece = sp.next,
            !.bag = sp.bag,
            !.gameOver = IF over THEN TRUE ELSE @,
            !.gameStarted = IF over THEN FALSE ELSE @,
            !.last = [Ev("dropPiece", "locked") EXCEPT
                         !.cleared = r.clearedLines,
                         !.rows = r.clearedRowIdxs,
                         !.dist = dropDistance]]

\* The while loop of dropPiece: the last newY >= y whose successor row is not
\* a valid placement.
RECURSIVE DropY(_, _, _, _)
DropY(b, piece, pos, newY) ==
    IF isValidPosition(b, piece, [pos EXCEPT !.y = newY + 1])
    THEN DropY(b, piece, pos, newY + 1)
    ELSE newY

dropPiece(s, shuffle) ==
    IF s.currentPiece = NoPiece \/ s.gameOver \/ s.isPaused
    THEN [s EXCEPT !.last = Ev("dropPiece", "ignored")]
    ELSE LET newY == DropY(s.board, s.currentPiece, s.currentPosition,
                           s.currentPosition.y)
         IN  finishHardDrop(s, newY, newY - s.currentPosition.y, shuffle)

\* Mutant: setScore(0) is missing.
startGame_KeepScore(s, shuffle) ==
    LET drawn == createRandomPiece(<<>>, shuffle)
        sp == spawnNewPiece(s, drawn.bag, shuffle)
    IN  [s EXCEPT
            !.board = EmptyBoard,
            !.level = s.startLevel,
            !.lines = 0,
            !.gameOver = FALSE,
            !.isPaused = FALSE,
            !.gameStarted = TRUE,
            !.bag = sp.bag,
            !.currentPiece = sp.piece,
            !.currentPosition = sp.startPos,
            !.nextPiece = sp.next,
            !.last = Ev("startGame", "started")]

\* setNextPiece(nextPiece) is overridden by the setNextPiece of spawnNewPiece,
\* which runs on the nextPiece of the latest render.
startGame(s, shuffle) ==
    LET drawn == createRandomPiece(<<>>, shuffle)
        sp == spawnNewPiece(s, drawn.bag, shuffle)
    IN  [s EXCEPT
            !.board = EmptyBoard,
            !.score = 0,
            !.level = s.startLevel,
            !.lines = 0,
            !.gameOver = FALSE,
            !.isPaused = FALSE,
            !.gameStarted = TRUE,
            !.bag = sp.bag,
            !.currentPiece = sp.piece,
            !.currentPosition = sp.startPos,
            !.nextPiece = sp.next,
            !.last = Ev("startGame", "started")]

\* Mutant: setIsPaused(true) in place of the flip.
togglePause_OnlyPauses(s) ==
    IF s.gameOver
    THEN [s EXCEPT !.last = Ev("togglePause", "ignored")]
    ELSE [s EXCEPT !.isPaused = TRUE, !.last = Ev("togglePause", "toggled")]

togglePause(s) ==
    IF s.gameOver
    THEN [s EXCEPT !.last = Ev("togglePause", "ignored")]
    ELSE [s EXCEPT !.isPaused = ~@, !.last = Ev("togglePause", "toggled")]

\* The keys of handleKeyPress that reach the engine (letters are aliases).
handleKeyPress(s, key, shuffle) ==
    IF ~s.gameStarted
    THEN [s EXCEPT !.last = Ev("handleKeyPress", "ignored")]
    ELSE CASE key = "ArrowLeft" -> movePiece(s, -1, 0, TRUE, shuffle)
           [] key = "ArrowRight" -> movePiece(s, 1, 0, TRUE, shuffle)
           [] key = "ArrowDown" -> movePiece(s, 0, 1, TRUE, shuffle)
           [] key = "ArrowUp" -> handleRotate(s)
           [] key = " " -> dropPiece(s, shuffle)
           [] key = "p" -> togglePause(s)

\* The timer callback of the game loop effect, which is installed only while
\* gameStarted && !gameOver && !isPaused.
gameLoop(s, shuffle) == movePiece(s, 0, 1, FALSE, shuffle)

\* Mutant: Math.max(50, ...) is missing.
dropInterval_NoFloor(lvl) ==
    IF lvl <= 9
    THEN 1000 - (lvl - 1) * 100
    ELSE 200 - (lvl - 10) * 10

\* The delay of the game loop's timer, in ms.
dropInterval(lvl) ==
    IF lvl <= 9
    THEN 1000 - (lvl - 1) * 100
    ELSE LET slope == 200 - (lvl - 10) * 10
         IN  IF 50 >= slope THEN 50 ELSE slope

\* The start level buttons: setStartLevel(prev => Math.max(1, prev - 1)) and
\* setStartLevel(prev => Math.min(30, prev + 1)); disabled while gameStarted.
setStartLevel(s, delta) ==
    LET v == s.startLevel + delta
        clamped == IF v < 1 THEN 1 ELSE IF v > 30 THEN 30 ELSE v
    IN  [s EXCEPT !.startLevel = clamped,
                  !.last = Ev("setStartLevel", "set")]

---------------------------------------------------------------------------
(* The game: the session in the variables, one action per intent *)

\* State-changing steps explored from an initial session.
MaxSteps == 4

\* Outcomes of the bag shuffle explored at a refill.
NumShuffles == 2

\* TETROMINO_KEYS rotated left by n: one outcome of the shuffle.
Rotated(n) ==
    [i \in 1..Len(TETROMINO_KEYS) |->
        TETROMINO_KEYS[((i - 1 + n) % Len(TETROMINO_KEYS)) + 1]]

Shuffles == {Rotated(n) : n \in 0..(NumShuffles - 1)}

\* The shuffle outcomes that matter to a handler drawing from bagIn.
ShufflesFor(bagIn) == IF Len(bagIn) = 0 THEN Shuffles ELSE {TETROMINO_KEYS}

Sess ==
    [board |-> board, currentPiece |-> currentPiece,
     currentPosition |-> currentPosition, nextPiece |-> nextPiece,
     score |-> score, level |-> level, lines |-> lines, gameOver |-> gameOver,
     isPaused |-> isPaused, gameStarted |-> gameStarted,
     startLevel |-> startLevel, bag |-> bag, isClearing |-> isClearing,
     pending |-> pending, last |-> last]

\* The variables hold session t.
Holds(t) ==
    /\ board = t.board
    /\ currentPiece = t.currentPiece
    /\ currentPosition = t.currentPosition
    /\ nextPiece = t.nextPiece
    /\ score = t.score
    /\ level = t.level
    /\ lines = t.lines
    /\ gameOver = t.gameOver
    /\ isPaused = t.isPaused
    /\ gameStarted = t.gameStarted
    /\ startLevel = t.startLevel
    /\ bag = t.bag
    /\ isClearing = t.isClearing
    /\ pending = t.pending
    /\ last = t.last

\* The state variables of the component take the values of session t.
Sets(t) ==
    /\ board' = t.board
    /\ currentPiece' = t.currentPiece
    /\ currentPosition' = t.currentPosition
    /\ nextPiece' = t.nextPiece
    /\ score' = t.score
    /\ level' = t.level
    /\ lines' = t.lines
    /\ gameOver' = t.gameOver
    /\ isPaused' = t.isPaused
    /\ gameStarted' = t.gameStarted
    /\ startLevel' = t.startLevel
    /\ bag' = t.bag
    /\ isClearing' = t.isClearing
    /\ pending' = t.pending
    /\ last' = t.last

\* After the opening script the session becomes t; a step that changes the
\* session counts.
Becomes(t) ==
    /\ script = <<>>
    /\ steps < MaxSteps
    /\ Sets(t)
    /\ steps' = IF [t EXCEPT !.last = last] = Sess THEN steps ELSE steps + 1
    /\ UNCHANGED <<script, perms>>

MoveLeft == Becomes(handleKeyPress(Sess, "ArrowLeft", TETROMINO_KEYS))

MoveRight == Becomes(handleKeyPress(Sess, "ArrowRight", TETROMINO_KEYS))

SoftDrop == \E shuffle \in ShufflesFor(bag) :
    Becomes(handleKeyPress(Sess, "ArrowDown", shuffle))

Rotate == Becomes(handleKeyPress(Sess, "ArrowUp", TETROMINO_KEYS))

HardDrop == \E shuffle \in ShufflesFor(bag) :
    Becomes(handleKeyPress(Sess, " ", shuffle))

TogglePause == Becomes(handleKeyPress(Sess, "p", TETROMINO_KEYS))

GravityTick ==
    /\ gameStarted /\ ~gameOver /\ ~isPaused
    /\ \E shuffle \in ShufflesFor(bag) : Becomes(gameLoop(Sess, shuffle))

AnimationDone ==
    /\ pending # <<>>
    /\ Becomes(animationDone(Sess))

\* The Start and Again buttons are rendered only while !gameStarted.
StartGame ==
    /\ ~gameStarted
    /\ \E shuffle \in Shuffles : Becomes(startGame(Sess, shuffle))

LevelUp ==
    /\ ~gameStarted /\ startLevel < 30
    /\ Becomes(setStartLevel(Sess, 1))

LevelDown ==
    /\ ~gameStarted /\ startLevel > 1
    /\ Becomes(setStartLevel(Sess, -1))

\* One intent of a script: a key of handleKeyPress, "tick" for the game loop's
\* timer, "anim" for the end of an animation, "start", "up" and "down" for the
\* buttons.  A refill during the script takes the shuffle outcome perm.
Step(s, intent, perm) ==
    CASE intent = "start" -> startGame(s, perm)
      [] intent = "tick" -> gameLoop(s, perm)
      [] intent = "anim" -> animationDone(s)
      [] intent = "up" -> setStartLevel(s, 1)
      [] intent = "down" -> setStartLevel(s, -1)
      [] OTHER -> handleKeyPress(s, intent, perm)

---------------------------------------------------------------------------
(* Opening scripts.  A behaviour starts at the freshly mounted component,   *)
(* enters the intents of one of these scripts, the bag's refills taking the *)
(* listed shuffle outcomes, and then goes on with any MaxSteps intents.     *)

Times(n, intent) == [i \in 1..n |-> intent]

Well1Script ==
    <<"start">> \o Times(3, "ArrowLeft") \o <<" ", " ">> \o
    Times(3, "ArrowRight") \o <<" ", "ArrowUp">> \o Times(6, "ArrowRight")

Well1Perms ==
    <<<<"Z", "S", "I", "L", "J", "T", "O">>>>

Well2Script ==
    <<"start", " ", "ArrowLeft", "ArrowLeft", " ">> \o
    Times(3, "ArrowRight") \o
    <<" ", "ArrowRight", "ArrowRight", " ", "ArrowUp">> \o
    Times(3, "ArrowLeft") \o <<" ", "ArrowUp">> \o Times(6, "ArrowRight")

Well2Perms ==
    <<<<"I", "Z", "J", "L", "S", "T", "O">>,
      <<"O", "T", "S", "Z", "J", "L", "I">>>>

Well3Script ==
    <<"start">> \o Times(4, "ArrowLeft") \o
    <<" ", "ArrowLeft", " ", "ArrowUp", "ArrowUp">> \o
    Times(3, "ArrowLeft") \o
    <<" ", "ArrowUp", "ArrowRight", "ArrowRight", " ", "ArrowUp", " ">> \o
    Times(3, "ArrowRight") \o <<" ", "ArrowUp", "ArrowUp">> \o
    Times(3, "ArrowRight") \o <<" ", "ArrowUp">> \o Times(6, "ArrowRight")

Well3Perms ==
    <<<<"Z", "S", "L", "J", "T", "O", "I">>,
      <<"O", "T", "S", "Z", "L", "I", "J">>>>

Well4Script ==
    <<"up", "up", "start">> \o Times(4, "ArrowLeft") \o
    <<" ", "ArrowLeft", " ">> \o Times(3, "ArrowUp") \o
    Times(4, "ArrowRight") \o
    <<" ", "ArrowUp", "ArrowRight", " ", "ArrowUp">> \o
    Times(3, "ArrowRight") \o <<" ", "ArrowUp", "ArrowUp">> \o
    Times(3, "ArrowRight") \o <<" ">> \o Times(4, "ArrowLeft") \o
    <<" ", "ArrowUp", "ArrowLeft", " ", "ArrowUp", "ArrowUp", " ", "ArrowUp">> \o
    Times(6, "ArrowRight")

Well4Perms ==
    <<<<"L", "Z", "S", "J", "T", "O", "I">>,
      <<"S", "Z", "L", "I", "J", "T", "O">>>>

TowerScript ==
    <<"start">> \o Times(3, "ArrowLeft") \o <<" ", " ">> \o
    Times(3, "ArrowRight") \o
    <<" ", " ", "ArrowRight", " ", " ", "ArrowUp", "ArrowUp", "ArrowRight", " ", "ArrowRight", " ", " ", "ArrowUp", "ArrowRight", "ArrowRight", " ", "ArrowRight", " ", "ArrowRight", " ">>

TowerPerms ==
    <<<<"Z", "S", "I", "L", "J", "T", "O">>,
      <<"I", "O", "T", "L", "S", "Z", "J">>,
      <<"I", "T", "S", "Z", "J", "L", "O">>>>

\* A stack that reaches row 3 in columns 2-4 under the spawned I: turned
\* upright, the I fits only one row higher, with its top cell above the board.
StackScript ==
    <<"start", " ", " ", "ArrowUp", "ArrowRight", " ">> \o
    Times(3, "ArrowUp") \o <<"ArrowRight", "ArrowRight", " ">> \o
    Times(3, "ArrowUp") \o
    <<"ArrowRight", "ArrowRight", " ", "ArrowRight", " ", "ArrowUp">> \o
    <<"ArrowRight", "ArrowRight", " ", "ArrowRight", " ", "ArrowUp">> \o
    <<"ArrowLeft", " ", "ArrowUp", "ArrowUp", "ArrowLeft", " ">> \o
    <<"ArrowLeft", " ", "ArrowUp", "ArrowUp", "ArrowLeft", " ">>

StackPerms ==
    <<<<"Z", "J", "T", "L", "S", "O", "I">>,
      <<"I", "L", "T", "J", "Z", "O", "S">>,
      <<"I", "T", "S", "Z", "J", "L", "O">>>>

\* A stack in columns 2-5 that reaches row 3 under the spawned I, the columns
\* 6-9 empty.
NarrowScript ==
    <<"start", "ArrowUp", "ArrowLeft", " ", "ArrowUp", " ", "ArrowLeft", " ">> \o
    <<"ArrowUp", "ArrowRight", " ", " ", "ArrowLeft", " ">> \o
    <<"ArrowUp", "ArrowRight", " ", " ", "ArrowUp", "ArrowLeft", " ">> \o
    Times(3, "ArrowUp") \o <<"ArrowLeft", " ">>

NarrowPerms ==
    <<<<"I", "O", "L", "Z", "J", "S", "T">>,
      <<"T", "Z", "I", "L", "S", "O", "J">>>>

\* The I of NarrowScript turned upright, which kicks it to row -1, turned flat
\* again there and taken above the empty columns.
AboveTheWell ==
    NarrowScript \o <<"ArrowUp", "ArrowUp">> \o Times(3, "ArrowRight")

LongScript ==
    <<"start">> \o Times(3, "ArrowLeft") \o <<" ", " ">> \o
    Times(3, "ArrowRight") \o <<" ", "ArrowUp">> \o Times(5, "ArrowRight") \o
    <<" ", "anim", "ArrowLeft", "ArrowLeft", " ", " ", "ArrowUp", "ArrowUp">> \o
    Times(3, "ArrowLeft") \o <<" ", "ArrowUp">> \o Times(3, "ArrowRight") \o
    <<" ", "anim", "ArrowUp", "ArrowUp">> \o Times(4, "ArrowRight") \o
    <<" ", "anim", "ArrowUp", "ArrowUp", "ArrowRight", " ">> \o
    Times(4, "ArrowLeft") \o
    <<" ", "ArrowUp", "ArrowLeft", " ", "anim", "ArrowUp">> \o
    Times(6, "ArrowRight") \o <<" ">> \o Times(3, "ArrowUp") \o
    Times(4, "ArrowRight") \o <<" ", "anim", "ArrowRight", " ">> \o
    Times(3, "ArrowLeft") \o <<" ", "anim">> \o Times(4, "ArrowLeft") \o
    <<" ">> \o Times(3, "ArrowRight") \o
    <<" ", " ", "anim", "ArrowLeft", "ArrowLeft", " ", "ArrowRight", " ", "anim">> \o
    Times(4, "ArrowRight") \o
    <<" ", "ArrowRight", "ArrowRight", " ", "ArrowLeft", " ", "ArrowUp">> \o
    Times(3, "ArrowLeft") \o
    <<" ", "anim", "ArrowUp", "ArrowUp", "ArrowLeft">>

LongPerms ==
    <<<<"Z", "L", "S", "J", "O", "I", "T">>,
      <<"I", "Z", "O", "T", "J", "S", "L">>,
      <<"Z", "T", "S", "O", "L", "I", "J">>,
      <<"S", "J", "T", "Z", "I", "L", "O">>>>

\* Gravity ticks that bring the piece of a script to one row above its rest.
ShortFall == Times(15, "tick")

\* LongScript with its last piece one row above the rest that clears the
\* tenth line.
CrossPrefix == LongScript \o Times(17, "tick")

\* The I piece of TowerScript taken to the free column on the right.
TowerToWell ==
    TowerScript \o Times(3, "ArrowRight") \o <<"ArrowUp", "ArrowRight", "ArrowRight">>

Opening(intents, outcomes) == [script |-> intents, perms |-> outcomes]

Openings ==
    {Opening(<<>>, <<>>),
     Opening(<<"start">> \o Times(18, "tick"), <<TETROMINO_KEYS>>),
     Opening(Well1Script \o ShortFall, Well1Perms),
     Opening(Well2Script \o ShortFall, Well2Perms),
     Opening(Well3Script \o ShortFall, Well3Perms),
     Opening(Well4Script \o ShortFall, Well4Perms),
     Opening(Well4Script, Well4Perms),
     Opening(TowerScript, TowerPerms),
     Opening(TowerScript \o Times(3, "ArrowRight"), TowerPerms),
     Opening(TowerToWell \o ShortFall, TowerPerms),
     Opening(StackScript, StackPerms),
     Opening(CrossPrefix, LongPerms)}

\* The next intent of the opening script; a refill takes the next outcome.
Replay ==
    /\ script # <<>>
    /\ LET perm == IF perms = <<>> THEN TETROMINO_KEYS ELSE Head(perms)
           t == Step(Sess, Head(script), perm)
           refilled == \/ Head(script) = "start"
                       \/ /\ t.bag # bag
                          /\ Len(t.bag) = Len(TETROMINO_KEYS) - 1
       IN  /\ Sets(t)
           /\ perms' = IF refilled /\ perms # <<>> THEN Tail(perms) ELSE perms
    /\ script' = Tail(script)
    /\ UNCHANGED steps

Init ==
    /\ Holds(Fresh)
    /\ steps = 0
    /\ \E o \in Openings : script = o.script /\ perms = o.perms

Next ==
    \/ Replay
    \/ MoveLeft
    \/ MoveRight
    \/ SoftDrop
    \/ Rotate
    \/ HardDrop
    \/ TogglePause
    \/ GravityTick
    \/ AnimationDone
    \/ StartGame
    \/ LevelUp
    \/ LevelDown

Spec == Init /\ [][Next]_vars

---------------------------------------------------------------------------
(* Events between two renders.  The updates of a timer callback (the game    *)
(* loop's tick, the end of animateLineClear) are rendered in a later task,   *)
(* and the keydown listener is replaced by an effect after that render.  A   *)
(* key event dispatched in between runs the listener of the previous render: *)
(* the handlers read the state of that render, the bag is a ref and is read  *)
(* as it is, and the updates of both events are applied in the order queued. *)

\* The session after the updates queued by a handler that ran on the render c
\* and returned k, applied to the session t that the earlier updates give:
\* set(value) replaces, set(prev => ...) adds to what is there, and each
\* animateLineClear call runs its own timeouts.
ApplyQueued(t, c, k) ==
    LET r == k.last.result
        locked == r = "locked"
        cleared == locked /\ k.last.cleared > 0
    IN  [t EXCEPT
            !.board = IF locked /\ ~cleared THEN k.board ELSE @,
            !.pending = IF cleared THEN Append(@, k.pending[Len(k.pending)]) ELSE @,
            !.isClearing = IF cleared THEN TRUE ELSE @,
            !.lines = @ + (k.lines - c.lines),
            !.score = @ + (k.score - c.score),
            !.level = IF locked THEN k.level ELSE @,
            !.currentPiece = IF locked \/ r = "rotated" THEN k.currentPiece ELSE @,
            !.currentPosition = IF locked \/ r \in {"rotated", "moved"}
                                THEN k.currentPosition ELSE @,
            !.nextPiece = IF locked THEN k.nextPiece ELSE @,
            !.gameOver = IF locked /\ k.gameOver THEN TRUE ELSE @,
            !.gameStarted = IF locked /\ k.gameOver THEN FALSE ELSE @,
            !.isPaused = IF r = "toggled" THEN ~@ ELSE @,
            !.bag = k.bag,
            !.last = [Ev("handleKeyPress", "stale") EXCEPT
                         !.input = <<t.last, k.last>>]]

\* The keys of handleKeyPress.
Keys == {"ArrowLeft", "ArrowRight", "ArrowDown", "ArrowUp", " ", "p"}

\* The session after a timer callback that gave t and a key event handled by
\* the listener of the render before it.
keyBeforeRender(s, t, key, shuffle) ==
    ApplyQueued(t, s, handleKeyPress([s EXCEPT !.bag = t.bag], key, shuffle))

\* A gravity tick, then a key before the render.
KeyAfterTick ==
    /\ gameStarted /\ ~gameOver /\ ~isPaused
    /\ \E shuffle \in ShufflesFor(bag) :
           LET t == gameLoop(Sess, shuffle)
           IN  \E key \in Keys : \E reshuffle \in ShufflesFor(t.bag) :
                   Becomes(keyBeforeRender(Sess, t, key, reshuffle))

\* The end of an animation, then a key before the render.
KeyAfterCommit ==
    /\ pending # <<>>
    /\ LET t == animationDone(Sess)
       IN  \E key \in Keys : \E reshuffle \in ShufflesFor(t.bag) :
               Becomes(keyBeforeRender(Sess, t, key, reshuffle))

NextRace ==
    \/ Next
    \/ KeyAfterTick
    \/ KeyAfterCommit

SpecRace == Init /\ [][NextRace]_vars

---------------------------------------------------------------------------
(* Inputs of the pure functions *)

\* Rows per test board.
TestRows == 4

\* How far outside the board a probed position may lie.
ProbeMargin == 2

\* Applications of clearLines in a row.
MaxApply == 2

FullRow(color) == [c \in 1..BOARD_WIDTH |-> color]

\* All but the last column filled.
AlmostFullRow(color) ==
    [c \in 1..BOARD_WIDTH |-> IF c < BOARD_WIDTH THEN color ELSE EmptyCell]

\* Only the last column filled.
LastCellRow(color) ==
    [c \in 1..BOARD_WIDTH |-> IF c = BOARD_WIDTH THEN color ELSE EmptyCell]

RowPatterns ==
    {EmptyRow, FullRow("cyan"), FullRow("red"), AlmostFullRow("blue"),
     LastCellRow("green")}

\* The board whose rows from row top (from 0) on are rows, all others empty.
BoardWith(top, rows) ==
    [r \in 1..BOARD_HEIGHT |->
        IF r > top /\ r <= top + Len(rows) THEN rows[r - top] ELSE EmptyRow]

ClearBoards ==
    {BoardWith(top, rows) :
        top \in {0, BOARD_HEIGHT - TestRows}, rows \in [1..TestRows -> RowPatterns]}

ValidBoards ==
    {EmptyBoard,
     BoardWith(0, <<LastCellRow("green"), AlmostFullRow("blue")>>),
     BoardWith(BOARD_HEIGHT - 2, <<LastCellRow("green"), AlmostFullRow("blue")>>)}

RECURSIVE RotN(_, _)
RotN(piece, n) == IF n = 0 THEN piece ELSE RotN(rotatePiece(piece), n - 1)

KeySet == {TETROMINO_KEYS[i] : i \in 1..Len(TETROMINO_KEYS)}

\* Every piece the game can hold: a catalog piece rotated 0 to 3 times.
AllPieces == {RotN(CatalogPiece(k), n) : k \in KeySet, n \in 0..3}

ProbePositions ==
    [x : (0 - ProbeMargin)..(BOARD_WIDTH - 1 + ProbeMargin),
     y : (0 - ProbeMargin)..(BOARD_HEIGHT - 1 + ProbeMargin)]

---------------------------------------------------------------------------
(* isValidPosition applied to a bounded set of boards, pieces and positions *)

InitValid ==
    /\ board \in ValidBoards
    /\ currentPiece \in AllPieces
    /\ currentPosition \in ProbePositions
    /\ nextPiece = NoPiece
    /\ score = 0 /\ level = 1 /\ lines = 0
    /\ gameOver = FALSE /\ isPaused = FALSE /\ gameStarted = FALSE
    /\ startLevel = 1 /\ bag = <<>> /\ isClearing = FALSE /\ pending = <<>>
    /\ script = <<>> /\ perms = <<>> /\ steps = 0 /\ last = NoEv

ProbeValid ==
    /\ steps = 0
    /\ steps' = 1
    /\ last' = [Ev("isValidPosition", "done") EXCEPT
                   !.ok = isValidPosition(board, currentPiece, currentPosition)]
    /\ UNCHANGED <<board, currentPiece, currentPosition, nextPiece, score, level,
                   lines, gameOver, isPaused, gameStarted, startLevel, bag,
                   isClearing, pending, script, perms>>

NextValid == ProbeValid

SpecValid == InitValid /\ [][NextValid]_vars

---------------------------------------------------------------------------
(* clearLines applied, up to MaxApply times in a row, to a bounded set of boards *)

InitClear ==
    /\ board \in ClearBoards
    /\ currentPiece = NoPiece
    /\ currentPosition = [x |-> 0, y |-> 0]
    /\ nextPiece = NoPiece
    /\ score = 0 /\ level = 1 /\ lines = 0
    /\ gameOver = FALSE /\ isPaused = FALSE /\ gameStarted = FALSE
    /\ startLevel = 1 /\ bag = <<>> /\ isClearing = FALSE /\ pending = <<>>
    /\ script = <<>> /\ perms = <<>> /\ steps = 0 /\ last = NoEv

ApplyClearLines ==
    /\ steps < MaxApply
    /\ steps' = steps + 1
    /\ LET r == clearLines(board)
       IN  /\ board' = r.board
           /\ last' = [Ev("clearLines", "done") EXCEPT
                          !.cleared = r.clearedLines,
                          !.rows = r.clearedRowIdxs,
                          !.input = board]
    /\ UNCHANGED <<currentPiece, currentPosition, nextPiece, score, level, lines,
                   gameOver, isPaused, gameStarted, startLevel, bag, isClearing,
                   pending, script, perms>>

NextClear == ApplyClearLines

SpecClear == InitClear /\ [][NextClear]_vars

---------------------------------------------------------------------------
(* placePiece applied to a bounded set of boards, pieces and positions.  The *)
(* game calls placePiece with the current position, which is the spawn       *)
(* position or has passed the bounds tests of isValidPosition: every cell of *)
(* the piece is inside the columns and above the floor.                      *)

InsideWalls(piece, pos) ==
    \A cell \in PieceCells(piece, pos) :
        cell[2] >= 0 /\ cell[2] < BOARD_WIDTH /\ cell[1] < BOARD_HEIGHT

InitPlace ==
    /\ board \in ValidBoards
    /\ currentPiece \in AllPieces
    /\ currentPosition \in ProbePositions
    /\ InsideWalls(currentPiece, currentPosition)
    /\ nextPiece = NoPiece
    /\ score = 0 /\ level = 1 /\ lines = 0
    /\ gameOver = FALSE /\ isPaused = FALSE /\ gameStarted = FALSE
    /\ startLevel = 1 /\ bag = <<>> /\ isClearing = FALSE /\ pending = <<>>
    /\ script = <<>> /\ perms = <<>> /\ steps = 0 /\ last = NoEv

\* board is the caller's board, last.input the board returned.
ApplyPlacePiece ==
    /\ steps = 0
    /\ steps' = 1
    /\ LET call == placePieceCall(board, currentPiece, currentPosition)
       IN  /\ board' = call.argument
           /\ last' = [Ev("placePiece", "done") EXCEPT !.input = call.result]
    /\ UNCHANGED <<currentPiece, currentPosition, nextPiece, score, level, lines,
                   gameOver, isPaused, gameStarted, startLevel, bag, isClearing,
                   pending, script, perms>>

NextPlace == ApplyPlacePiece

SpecPlace == InitPlace /\ [][NextPlace]_vars

---------------------------------------------------------------------------
(* rotatePiece applied to every piece, beside every board and position of    *)
(* InitPlace.                                                                *)

\* currentPiece is the caller's piece, last.input the piece returned.
ApplyRotatePiece ==
    /\ steps = 0
    /\ steps' = 1
    /\ LET call == rotatePieceCall(currentPiece)
       IN  /\ currentPiece' = call.argument
           /\ last' = [Ev("rotatePiece", "done") EXCEPT !.input = call.result]
    /\ UNCHANGED <<board, currentPosition, nextPiece, score, level, lines,
                   gameOver, isPaused, gameStarted, startLevel, bag, isClearing,
                   pending, script, perms>>

NextRotate == ApplyRotatePiece

SpecRotate == InitPlace /\ [][NextRotate]_vars

---------------------------------------------------------------------------
(* createRandomPiece called again and again on the bag that startGame has    *)
(* emptied.  A refill's sort with a random comparator leaves some            *)
(* permutation of the seven keys; the outcomes tried are the rotations of    *)
(* TETROMINO_KEYS and their reversals.                                       *)

MaxDraws == 15

Reversed(seq) == [i \in 1..Len(seq) |-> seq[Len(seq) + 1 - i]]

BagShuffles ==
    {Rotated(n) : n \in 0..(Len(TETROMINO_KEYS) - 1)} \cup
    {Reversed(Rotated(n)) : n \in 0..(Len(TETROMINO_KEYS) - 1)}

InitBag ==
    /\ Holds(Fresh)
    /\ script = <<>> /\ perms = <<>> /\ steps = 0

\* One call: nextPiece is the piece returned, last.input the keys returned so
\* far.
Draw ==
    /\ steps < MaxDraws
    /\ steps' = steps + 1
    /\ \E shuffle \in IF Len(bag) = 0 THEN BagShuffles ELSE {TETROMINO_KEYS} :
           LET drawn == createRandomPiece(bag, shuffle)
           IN  /\ bag' = drawn.bag
               /\ nextPiece' = drawn.piece
               /\ last' = [Ev("createRandomPiece", "drawn") EXCEPT
                              !.input = Append(last.input, drawn.piece.key)]
    /\ UNCHANGED <<board, currentPiece, currentPosition, score, level, lines,
                   gameOver, isPaused, gameStarted, startLevel, isClearing,
                   pending, script, perms>>

NextBag == Draw

SpecBag == InitBag /\ [][NextBag]_vars

---------------------------------------------------------------------------
(* The game loop's delay computed in sessions of every start level and of   *)
(* 0 to MaxLines lines; level is calcLevel(lines, startLevel).               *)

MaxLines == 300

InitInterval ==
    /\ \E sl \in 1..30 : \E n \in 0..MaxLines :
           Holds([Fresh EXCEPT !.gameStarted = TRUE,
                               !.startLevel = sl,
                               !.lines = n,
                               !.level = calcLevel(n, sl)])
    /\ script = <<>> /\ perms = <<>> /\ steps = 0

\* The effect computes the delay for the level of the session: last.dist.
ComputeDropInterval ==
    /\ steps = 0
    /\ steps' = 1
    /\ last' = [Ev("dropInterval", "done") EXCEPT !.dist = dropInterval(level)]
    /\ UNCHANGED <<board, currentPiece, currentPosition, nextPiece, score, level,
                   lines, gameOver, isPaused, gameStarted, startLevel, bag,
                   isClearing, pending, script, perms>>

NextInterval == ComputeDropInterval

SpecInterval == InitInterval /\ [][NextInterval]_vars

---------------------------------------------------------------------------
(* The game loop's timer during the fall of the first piece of a session.   *)
(* The effect of the game loop sets a timeout of dropInterval ms whose       *)
(* callback, loop, calls movePiece(0, 1) and sets the next timeout.  The     *)
(* effect depends on movePiece, a callback that depends on currentPiece,     *)
(* currentPosition and board among others: after every render in which one   *)
(* of them is new, the cleanup clears the pending timeout and the effect     *)
(* sets a new one.  steps counts the time since the timeout was set, in      *)
(* units of TimeUnit ms.                                                     *)

\* The unit of time, in ms.
TimeUnit == 250

\* The start levels of the sessions explored.
LoopLevels == {1, 9}

\* The keys that move or turn the piece without a descent.
LoopKeys == {"ArrowLeft", "ArrowRight", "ArrowUp"}

\* The operation recorded in ev has set state that movePiece depends on (an
\* accepted move or rotation sets a new position object, a lock sets the
\* pieces): the effect runs again.
EffectReruns(ev) == ev.result \in {"moved", "rotated", "locked"}

\* The first piece of the session has locked: the exploration ends.
FirstLockDone == last.result = "locked"

InitLoop ==
    /\ \E sl \in LoopLevels : \E shuffle \in Shuffles :
           Holds(startGame([Fresh EXCEPT !.startLevel = sl], shuffle))
    /\ script = <<>> /\ perms = <<>> /\ steps = 0

\* A key of the player; the timeout is set anew if the effect runs again.
PlayerKey ==
    /\ ~FirstLockDone
    /\ \E key \in LoopKeys :
           LET t == handleKeyPress(Sess, key, TETROMINO_KEYS)
           IN  /\ Sets(t)
               /\ steps' = IF EffectReruns(t.last) THEN 0 ELSE steps
    /\ UNCHANGED <<script, perms>>

\* One unit of time passes while the timeout is pending.
TimePasses ==
    /\ ~FirstLockDone
    /\ gameStarted /\ ~gameOver /\ ~isPaused
    /\ steps * TimeUnit < dropInterval(level)
    /\ steps' = steps + 1
    /\ UNCHANGED <<board, currentPiece, currentPosition, nextPiece, score, level,
                   lines, gameOver, isPaused, gameStarted, startLevel, bag,
                   isClearing, pending, script, perms, last>>

\* The timeout expires: loop calls movePiece(0, 1) and sets the next timeout.
loop ==
    /\ ~FirstLockDone
    /\ gameStarted /\ ~gameOver /\ ~isPaused
    /\ steps * TimeUnit >= dropInterval(level)
    /\ \E shuffle \in ShufflesFor(bag) : Sets(gameLoop(Sess, shuffle))
    /\ steps' = 0
    /\ UNCHANGED <<script, perms>>

NextLoop ==
    \/ PlayerKey
    \/ TimePasses
    \/ loop

\* Time passes, and an expired timeout runs its callback.
SpecLoop ==
    InitLoop /\ [][NextLoop]_vars /\ WF_vars(TimePasses) /\ WF_vars(loop)

---------------------------------------------------------------------------
(* Sessions in which the player enters nothing more: after the start, or    *)
(* after an opening script, the only events are the callbacks of the game    *)
(* loop's timer.  steps counts them.                                         *)

\* Timer callbacks explored in a session.
MaxTicks == 400

GravityOpenings ==
    {Opening(<<"start">>, <<Rotated(n)>>) : n \in 0..(NumShuffles - 1)} \cup
    {Opening(AboveTheWell, NarrowPerms)}

InitGravity ==
    /\ Holds(Fresh)
    /\ steps = 0
    /\ \E o \in GravityOpenings : script = o.script /\ perms = o.perms

\* The effect sets the timer only while the session is started, not over and
\* not paused.
TimerSet ==
    /\ script = <<>>
    /\ gameStarted /\ ~gameOver /\ ~isPaused
    /\ steps < MaxTicks

\* The timer's callback.
TimerTick ==
    /\ TimerSet
    /\ \E shuffle \in ShufflesFor(bag) : Sets(gameLoop(Sess, shuffle))
    /\ steps' = steps + 1
    /\ UNCHANGED <<script, perms>>

NextGravity ==
    \/ Replay
    \/ TimerTick

\* TimerTick seen on the counter of callbacks alone: a step of NextGravity is
\* a TimerTick step exactly if it counts a callback, and TimerTick is enabled
\* exactly where the timer is set.
TimerRuns == TimerSet /\ steps' = steps + 1

\* A timer that is set expires and its callback runs.
SpecGravity == InitGravity /\ [][NextGravity]_vars /\ WF_steps(TimerRuns)

---------------------------------------------------------------------------
(* Claims *)

\* The cell (row, col), from 0, of piece at pos offends: it lies outside the
\* columns, or below the floor, or on an occupied cell of a row >= 0.
Offends(b, cell) ==
    \/ cell[2] < 0
    \/ cell[2] >= 10
    \/ cell[1] >= 20
    \/ (cell[1] >= 0 /\ b[cell[1] + 1][cell[2] + 1] # EmptyCell)

\* The rows (indices from 1) of b that are full, stated cell by cell.
FullRowsOf(b) == {i \in 1..Len(b) : \A c \in 1..10 : b[i][c] # EmptyCell}

\* The line-clear points of k rows, as the scoring table states them.
TablePoints(k) ==
    CASE k = 1 -> 100 [] k = 2 -> 300 [] k = 3 -> 500 [] k = 4 -> 800 [] OTHER -> 0

\* The spawn position of piece: row 0, column floor((10 - width) / 2).
SpawnPosition(piece) == [x |-> (10 - Len(piece.shape[1])) \div 2, y |-> 0]

\* The offsets of a rotation, in the order in which they are to be tried.
KickOffsets == <<<<0, 0>>, <<-1, 0>>, <<1, 0>>, <<0, -1>>, <<-1, -1>>, <<1, -1>>>>

\* pos moved by the i-th offset.
KickPosition(pos, i) ==
    [x |-> pos.x + KickOffsets[i][1], y |-> pos.y + KickOffsets[i][2]]

\* The rows that locking piece at pos on b fills.
RowsFilledBy(b, piece, pos) == Cardinality(FullRowsOf(placePiece(b, piece, pos)))

\* C1: isValidPosition(board, piece, pos) is false if and only if some occupied
\* cell of the shape maps to a column outside [0,10), to a row >= 20, or to a
\* row >= 0 whose board cell is occupied; cells of a row < 0 in an in-range
\* column never make the placement invalid.
C1_ValidIffNoOffendingCell ==
    last.op = "isValidPosition" =>
        /\ last.ok = FALSE <=>
              \E cell \in PieceCells(currentPiece, currentPosition) :
                  Offends(board, cell)
        /\ (\A cell \in PieceCells(currentPiece, currentPosition) :
                cell[1] < 0 /\ cell[2] \in 0..9) => last.ok = TRUE

\* A placement found valid although one of its cells lies above the board and
\* another lies on the board.
C1_Witness ==
    /\ last.op = "isValidPosition"
    /\ last.ok = TRUE
    /\ \E cell \in PieceCells(currentPiece, currentPosition) : cell[1] < 0
    /\ \E cell \in PieceCells(currentPiece, currentPosition) : cell[1] >= 0
    /\ board # EmptyBoard

\* C2: when a move with dy > 0 is issued while Falling and the candidate
\* position is invalid, the piece is locked where it is: the board that results
\* is clearLines(placePiece(board, currentPiece, currentPosition)), lines grows
\* by the number of rows cleared, the line-clear score is awarded, and the
\* previous nextPiece becomes the current piece at the spawn position.
C2_LandingLockResult ==
    [][(last'.op = "movePiece" /\ last'.result = "locked") =>
          LET r == clearLines(placePiece(board, currentPiece, currentPosition))
          IN  /\ board' = r.board
              /\ lines' = lines + r.clearedLines
              /\ score' = score + TablePoints(r.clearedLines) * level
              /\ currentPiece' = nextPiece
              /\ currentPosition' = SpawnPosition(nextPiece)]_vars

\* C3: a lock that clears k rows (k in 1..4) adds table[k] x L to the score,
\* with table = {1:100, 2:300, 3:500, 4:800} and L the level before this
\* clear's level update; a lock that clears no row adds no line-clear points.
\* This holds for the landing branch of movePiece and for the hard drop, whose
\* drop points come on top.
C3_LineClearScore ==
    [][last'.result = "locked" =>
          LET lockPos == [currentPosition EXCEPT !.y = @ + last'.dist]
              k == RowsFilledBy(board, currentPiece, lockPos)
          IN  /\ k \in 0..4
              /\ last'.op = "movePiece" => last'.dist = 0
              /\ score' = score + TablePoints(k) * level + 2 * last'.dist]_vars

\* A lock has cleared rows and raised the level: the level that paid is the one
\* before the update.
C3_Witness ==
    /\ last.result = "locked"
    /\ last.cleared >= 1
    /\ (lines \div 10) > ((lines - last.cleared) \div 10)
    /\ level = 2
    /\ score > 0

\* C4: in every state reachable after start and until the next start, level =
\* floor(lines / 10) + (startLevel - 1) + 1, and level never decreases within a
\* session.
C4_LevelFollowsLines ==
    /\ []((gameStarted \/ gameOver) =>
             level = (lines \div 10) + (startLevel - 1) + 1)
    /\ [][((gameStarted \/ gameOver) /\ last'.op # "startGame") =>
             level' >= level]_vars

\* C5: after any lock (landing move or hard drop) the session enters GameOver
\* if and only if the newly spawned piece at its spawn position is not a valid
\* placement on the post-clear board; entering GameOver adds no score beyond
\* the award of the lock.
C5_GameOverIffSpawnBlocked ==
    [][last'.result = "locked" =>
          LET lockPos == [currentPosition EXCEPT !.y = @ + last'.dist]
              placed == placePiece(board, currentPiece, lockPos)
              k == Cardinality(FullRowsOf(placed))
              postClear == clearLines(placed).board
              blocked == ~isValidPosition(postClear, nextPiece,
                                          SpawnPosition(nextPiece))
          IN  /\ ~gameOver
              /\ gameOver' <=> blocked
              /\ gameStarted' <=> ~blocked
              /\ score' = score + TablePoints(k) * level + 2 * last'.dist]_vars

\* A lock after which the spawned piece does not fit: the session is over.
C5_Witness ==
    /\ last.result = "locked"
    /\ gameOver
    /\ ~gameStarted
    /\ currentPiece # NoPiece
    /\ score > 0

\* C6: hardDrop from (x, y) locks the piece at (x, y') where y' is the largest
\* row >= y such that every position (x, y..y') is a valid placement and
\* (x, y' + 1) is not, and adds 2 x (y' - y) drop points to the score.
C6_HardDropLanding ==
    [][(last'.op = "dropPiece" /\ last'.result = "locked") =>
          LET y == currentPosition.y
              yEnd == y + last'.dist
              at(row) == [currentPosition EXCEPT !.y = row]
              k == RowsFilledBy(board, currentPiece, at(yEnd))
          IN  /\ yEnd >= y
              /\ \A row \in y..yEnd : isValidPosition(board, currentPiece, at(row))
              /\ ~isValidPosition(board, currentPiece, at(yEnd + 1))
              /\ k = 0 => board' = placePiece(board, currentPiece, at(yEnd))
              /\ score' = score + 2 * (yEnd - y) + TablePoints(k) * level]_vars

\* C7: an accepted rotation places the rotated shape at currentPosition plus
\* the first offset, in the order (0,0), (-1,0), (+1,0), (0,-1), (-1,-1),
\* (+1,-1), at which the rotated shape is a valid placement; a later offset is
\* never chosen when an earlier one is valid.
C7_FirstValidKickWins ==
    [][(last'.op = "rotatePieceHandler" /\ last'.result = "rotated") =>
          LET rotated == rotatePiece(currentPiece)
          IN  \E i \in 1..6 :
                  /\ currentPiece' = rotated
                  /\ currentPosition' = KickPosition(currentPosition, i)
                  /\ isValidPosition(board, rotated,
                                     KickPosition(currentPosition, i))
                  /\ \A j \in 1..(i - 1) :
                         ~isValidPosition(board, rotated,
                                          KickPosition(currentPosition, j))]_vars

\* A rotation accepted at the fourth offset, (0,-1), where the fifth offset
\* (one column to the left of where the piece is now) was valid as well.
C7_Witness ==
    /\ last.op = "rotatePieceHandler"
    /\ last.result = "rotated"
    /\ last.kick = 4
    /\ isValidPosition(board, currentPiece,
                       [currentPosition EXCEPT !.x = @ - 1])

\* C8: when the rotated shape is invalid at all six offsets, rotate is a no-op:
\* the current piece, the current position, the board, score, lines, level and
\* the next piece are unchanged.
C8_RejectedRotationIsNoOp ==
    [][(/\ last'.op = "rotatePieceHandler"
        /\ currentPiece # NoPiece
        /\ \A i \in 1..6 :
               ~isValidPosition(board, rotatePiece(currentPiece),
                                KickPosition(currentPosition, i))) =>
          /\ last'.result # "rotated"
          /\ UNCHANGED <<currentPiece, currentPosition, board, score, lines,
                         level, nextPiece>>]_vars

\* A rotation of the falling piece was rejected: the piece is upright where no
\* offset leaves room for it lying.
C8_Witness ==
    /\ last.op = "rotatePieceHandler"
    /\ last.result = "rejected"
    /\ gameStarted /\ ~isPaused /\ ~gameOver
    /\ Len(currentPiece.shape) > Len(currentPiece.shape[1])

\* C9: clearLines on a 20-row board removes every full row at once, keeps the
\* remaining rows in their original relative order, prepends as many all-empty
\* rows as were removed so that the result has 20 rows of 10 cells, and reports
\* clearedLines = the number of full rows and clearedRowIdxs = their original
\* indices.
C9_ClearLinesRemovesAllFullRows ==
    last.op = "clearLines" =>
        LET in == last.input
            full == FullRowsOf(in)
            k == Cardinality(full)
            \* the number of kept rows of in up to row i
            rank(i) == Cardinality({j \in 1..i : j \notin full})
        IN  /\ Len(board) = 20
            /\ \A r \in 1..20 : Len(board[r]) = 10
            /\ last.cleared = k
            /\ Len(last.rows) = k
            /\ {last.rows[n] + 1 : n \in 1..k} = full
            /\ \A n \in 1..k : \A m \in 1..k : n < m => last.rows[n] < last.rows[m]
            /\ \A r \in 1..k : \A c \in 1..10 : board[r][c] = EmptyCell
            /\ \A i \in 1..20 : i \notin full => board[k + rank(i)] = in[i]

\* clearLines has removed two or more full rows that were not adjacent.
C9_Witness ==
    /\ last.op = "clearLines"
    /\ last.cleared >= 2
    /\ \E n \in 1..(Len(last.rows) - 1) : last.rows[n + 1] > last.rows[n] + 1
    /\ \E r \in 1..20 : \E c \in 1..10 : board[r][c] # EmptyCell

\* C10: clearLines applied to a board with no full row returns the same board
\* and clearedLines = 0; hence a second application of clearLines returns the
\* board of the first with clearedLines = 0.
C10_ClearLinesIdempotent ==
    /\ (last.op = "clearLines" /\ FullRowsOf(last.input) = {}) =>
           (board = last.input /\ last.cleared = 0 /\ last.rows = <<>>)
    /\ (last.op = "clearLines" /\ steps >= 2) =>
           (board = last.input /\ last.cleared = 0)

\* clearLines applied a second time, after a first application removed rows.
C10_Witness ==
    /\ last.op = "clearLines"
    /\ steps = 2
    /\ last.cleared = 0
    /\ board # EmptyBoard
    /\ \E r \in 1..TestRows : \A c \in 1..10 : board[r][c] = EmptyCell

\* C11: placePiece(board, piece, pos) returns a board in which every occupied
\* piece cell of a row >= 0 holds the piece's color and every other cell equals
\* the input board's cell; occupied cells of a row < 0 are dropped, and the
\* input board is left unmodified.
C11_PlacePieceWritesOnlyItsCells ==
    [][last'.op = "placePiece" =>
          LET out == last'.input
              occupied == PieceCells(currentPiece, currentPosition)
          IN  /\ Len(out) = 20
              /\ \A r \in 0..19 :
                     /\ Len(out[r + 1]) = 10
                     /\ \A c \in 0..9 :
                            out[r + 1][c + 1] =
                                IF <<r, c>> \in occupied
                                THEN currentPiece.color
                                ELSE board[r + 1][c + 1]
              /\ board' = board]_vars

\* placePiece has dropped a cell above the board, written a cell on the board
\* and written over an occupied cell.
C11_Witness ==
    /\ last.op = "placePiece"
    /\ \E cell \in PieceCells(currentPiece, currentPosition) : cell[1] < 0
    /\ \E cell \in PieceCells(currentPiece, currentPosition) :
           /\ cell[1] >= 0
           /\ board[cell[1] + 1][cell[2] + 1] # EmptyCell
           /\ last.input[cell[1] + 1][cell[2] + 1] = currentPiece.color
    /\ last.input # board

\* C12: rotatePiece(piece) returns a piece whose shape is the input's h x w
\* shape turned by 90 degrees into a w x h shape, rotated[i][j] =
\* shape[h-1-j][i]; kind and color are kept, the input piece is not changed
\* and the result does not depend on the board.
C12_RotatePieceQuarterTurn ==
    [][last'.op = "rotatePiece" =>
          LET shape == currentPiece.shape
              out == last'.input
              h == Len(shape)
              w == Len(shape[1])
          IN  /\ Len(out.shape) = w
              /\ \A i \in 0..(w - 1) :
                     /\ Len(out.shape[i + 1]) = h
                     /\ \A j \in 0..(h - 1) :
                            out.shape[i + 1][j + 1] = shape[(h - 1 - j) + 1][i + 1]
              /\ out.key = currentPiece.key
              /\ out.color = currentPiece.color
              /\ currentPiece' = currentPiece
              /\ board' = board]_vars

\* A piece of unequal height and width has been turned beside a board that
\* holds settled cells.
C12_Witness ==
    /\ last.op = "rotatePiece"
    /\ Len(currentPiece.shape) # Len(currentPiece.shape[1])
    /\ Len(last.input.shape) = Len(currentPiece.shape[1])
    /\ last.input.shape # currentPiece.shape
    /\ currentPiece.key = "L"
    /\ board # EmptyBoard

\* C13: right after start the board is all empty, score = 0, lines = 0,
\* level = startLevel, gameOver, isPaused are false and gameStarted is true,
\* and there are a current piece at its spawn position and a next piece,
\* whatever the state before (first start, or a start after a game over).
C13_StartResetsSession ==
    last.op = "startGame" =>
        /\ \A r \in 1..20 : \A c \in 1..10 : board[r][c] = EmptyCell
        /\ score = 0
        /\ lines = 0
        /\ level = startLevel
        /\ ~gameOver
        /\ ~isPaused
        /\ gameStarted
        /\ \E k \in KeySet : currentPiece = CatalogPiece(k)
        /\ currentPosition = SpawnPosition(currentPiece)
        /\ \E k \in KeySet : nextPiece = CatalogPiece(k)

\* A start after a game over: the next piece of the lost game was still there,
\* so that start drew two pieces from the new bag where a first start draws
\* three.
C13_Witness ==
    /\ last.op = "startGame"
    /\ Len(bag) = 5
    /\ startLevel > 1

\* The session is in the Falling phase: started, not over, not paused, no
\* line-clear animation running, a current piece present.
Falling ==
    /\ gameStarted /\ ~gameOver /\ ~isPaused /\ ~isClearing
    /\ currentPiece # NoPiece

\* The position (x + dx, y + dy) holds no offending cell of the current piece.
CandidateFree(dx, dy) ==
    \A cell \in PieceCells(currentPiece,
                           [x |-> currentPosition.x + dx,
                            y |-> currentPosition.y + dy]) :
        ~Offends(board, cell)

\* C14: a move (dx, dy) issued while Falling whose candidate position is valid
\* is accepted: currentPosition becomes (x + dx, y + dy), score grows by 1 iff
\* the move is player-initiated with dy > 0 and by 0 otherwise; board, piece,
\* next piece, lines and level are unchanged.
C14_ValidMoveIsAccepted ==
    [][(/\ last'.op = "movePiece"
        /\ Falling
        /\ CandidateFree(last'.dx, last'.dy)) =>
          /\ last'.ok
          /\ currentPosition' = [x |-> currentPosition.x + last'.dx,
                                 y |-> currentPosition.y + last'.dy]
          /\ score' = score + (IF last'.player /\ last'.dy > 0 THEN 1 ELSE 0)
          /\ board' = board
          /\ currentPiece' = currentPiece
          /\ nextPiece' = nextPiece
          /\ lines' = lines
          /\ level' = level]_vars

\* A gravity tick has moved the piece one row down on a board that holds
\* settled cells, and has paid nothing.
C14_Witness ==
    /\ last.op = "movePiece"
    /\ last.ok
    /\ ~last.player
    /\ last.dy = 1
    /\ currentPosition.y > 0
    /\ board # EmptyBoard
    /\ score > 0

\* The part of the session the player's intents act on: everything but the
\* record of the last operation.
Session == [Sess EXCEPT !.last = NoEv]

\* C15: a move (dx, dy) with dy <= 0 whose candidate position is invalid
\* returns false and changes nothing: position, piece, board, score, lines,
\* level and phase are unchanged, and the piece is not locked.
C15_BlockedSidewaysIsNoOp ==
    [][(/\ last'.op = "movePiece"
        /\ last'.dy <= 0
        /\ ~CandidateFree(last'.dx, last'.dy)) =>
          /\ ~last'.ok
          /\ last'.result # "locked"
          /\ Session' = Session]_vars

\* While Falling, a move to the side has been refused because of settled
\* cells, not of a wall.
C15_Witness ==
    /\ last.op = "movePiece"
    /\ last.result = "blocked"
    /\ Falling
    /\ \E cell \in PieceCells(currentPiece,
                               [currentPosition EXCEPT !.x = @ + last.dx]) :
           /\ cell[2] \in 0..9
           /\ Offends(board, cell)

\* The step is a gravity tick: the game loop's move, not a player's.
IsTick(ev) == ev.op = "movePiece" /\ ~ev.player /\ ev.dx = 0 /\ ev.dy = 1

\* C16: a gravity tick behaves like move(0, +1, false): when the cell below is
\* free the piece moves down one row and no point is awarded, nothing else
\* changing; otherwise the outcome (lock, clear, score, spawn, game over) is
\* the one of a player's downward move, the ArrowDown key, from the same state.
C16_TickIsUnpaidDownwardMove ==
    [][IsTick(last') =>
          IF Falling /\ CandidateFree(0, 1)
          THEN /\ last'.ok
               /\ Session' = [Session EXCEPT !.currentPosition.y = @ + 1]
               /\ \A shuffle \in ShufflesFor(bag) :
                      handleKeyPress(Sess, "ArrowDown", shuffle).score = score' + 1
          ELSE /\ ~last'.ok
               /\ \E shuffle \in ShufflesFor(bag) :
                      LET player == handleKeyPress(Sess, "ArrowDown", shuffle)
                      IN  /\ Session' = [player EXCEPT !.last = NoEv]
                          /\ last'.result = player.last.result
                          /\ last'.cleared = player.last.cleared]_vars

\* A gravity tick has locked the piece, a row was cleared and paid.
C16_Witness ==
    /\ IsTick(last)
    /\ last.result = "locked"
    /\ last.cleared >= 1
    /\ score >= 100
    /\ isClearing

\* The session is in the Paused phase.
Paused == gameStarted /\ ~gameOver /\ isPaused

\* The session is in the GameOver phase.
GameOver == gameOver

\* C17: togglePause takes Falling to Paused and Paused back, and changes
\* nothing but the pause flag, so that two toggles in a row restore the state;
\* while GameOver the pause keys change nothing.
C17_TogglePauseFlipsOnlyPause ==
    /\ [][/\ last'.op = "togglePause" =>
                /\ ~GameOver
                /\ Session' = [Session EXCEPT !.isPaused = ~@]
                /\ Falling => Paused'
                /\ (Paused /\ ~isClearing) => Falling'
          /\ (GameOver /\ last'.op \in {"togglePause", "handleKeyPress"}) =>
                Session' = Session]_vars
    /\ [](gameStarted =>
             [togglePause(togglePause(Sess)) EXCEPT !.last = NoEv] = Session)

\* The game has been paused and resumed with settled cells on the board and
\* points scored.
C17_Witness ==
    /\ last.op = "togglePause"
    /\ Falling
    /\ board # EmptyBoard
    /\ score > 0

\* C18: while the session is Paused the board is not mutated and no gravity
\* tick is applied: from the step that enters Paused to the step that leaves
\* it, board, current position, score and lines stay unchanged, also when the
\* pause was toggled while a line-clear animation had its board commit pending.
C18_NothingMovesWhilePaused ==
    [][(Paused \/ Paused') =>
          /\ board' = board
          /\ currentPosition' = currentPosition
          /\ score' = score
          /\ lines' = lines]_vars

\* The session is in the NotStarted phase.
NotStarted == ~gameStarted /\ ~gameOver

\* The step is a move, rotate, hard drop or gravity tick intent, whether it
\* reached its handler or was turned away by handleKeyPress.
IsPlayIntent(ev) ==
    ev.op \in {"movePiece", "rotatePieceHandler", "dropPiece", "handleKeyPress"}

\* C19: move, rotate, hard drop and gravity tick intents issued while the
\* session is NotStarted, Paused or GameOver change no part of the session;
\* while GameOver no step but a start changes the session.
C19_IntentsIgnoredOutsidePlay ==
    [][/\ ((NotStarted \/ Paused \/ GameOver) /\ IsPlayIntent(last')) =>
             Session' = Session
       /\ (GameOver /\ last'.op # "startGame") => Session' = Session]_vars

\* The kinds returned by draws from + 1 .. from + n.
DrawnKinds(draws, from, n) == {draws[from + i] : i \in 1..n}

\* C20: from the empty bag of a start on, draws 7k+1 .. 7k+7 of
\* createRandomPiece return each of the 7 kinds exactly once (no kind comes
\* twice within such a group), the bag is refilled, with all 7 kinds, only
\* when it is empty, and its size is always within 0..7.
C20_BagCycles ==
    /\ [](LET draws == last.input
              n == Len(draws)
          IN  /\ Len(bag) \in 0..7
              /\ \A k \in 0..(n \div 7) :
                     LET size == IF 7 * k + 7 <= n THEN 7 ELSE n - 7 * k
                     IN  /\ Cardinality(DrawnKinds(draws, 7 * k, size)) = size
                         /\ DrawnKinds(draws, 7 * k, size) \subseteq KeySet
                         /\ size = 7 => DrawnKinds(draws, 7 * k, size) = KeySet)
    /\ [][IF Len(bag) = 0
          THEN {bag'[i] : i \in 1..Len(bag')} \cup {nextPiece'.key} = KeySet
               /\ Len(bag') = 6
          ELSE bag' = SubSeq(bag, 1, Len(bag) - 1)
               /\ nextPiece'.key = bag[Len(bag)]]_vars

\* Two full groups of seven have been drawn in different orders and the third
\* refill has happened.
C20_Witness ==
    /\ last.op = "createRandomPiece"
    /\ Len(last.input) = 15
    /\ Len(bag) = 6
    /\ SubSeq(last.input, 1, 7) # SubSeq(last.input, 8, 14)
    /\ last.input[7] = last.input[8]

\* The draw after draw i that returns the same kind again, 0 if there is none
\* yet.
NextOccurrence(draws, i) ==
    LET later == {j \in (i + 1)..Len(draws) : draws[j] = draws[i]}
    IN  IF later = {} THEN 0
        ELSE CHOOSE j \in later : \A m \in later : j <= m

\* Between every occurrence of a kind and its next one lie at least least and
\* at most most draws, counting the draw of the next occurrence.
RecursWithin(draws, least, most) ==
    \A i \in 1..Len(draws) :
        LET j == NextOccurrence(draws, i)
        IN  IF j = 0
            THEN Len(draws) - i < most
            ELSE (j - i) >= least /\ (j - i) <= most

\* C21 as stated: in the sequence of kinds returned by successive
\* createRandomPiece calls, a kind comes again never fewer than 1 and never
\* more than 12 draws after its previous occurrence.
C21_RecursWithin12 == RecursWithin(last.input, 1, 12)

\* C21, amended: a kind comes again never fewer than 1 and never more than
\* 13 draws after its previous occurrence (last of one bag and first of the
\* next; first of one bag and last of the next).
C21_RecursWithin13 == RecursWithin(last.input, 1, 13)

\* A kind drawn first from one bag has come again as the last of the next bag,
\* 13 draws later, and another kind has come twice in a row.
C21_Witness ==
    /\ Len(last.input) >= 14
    /\ NextOccurrence(last.input, 1) = 14
    /\ NextOccurrence(last.input, 7) = 8

\* The session is in the Falling or the LineClearing phase.
Running == gameStarted /\ ~gameOver /\ ~isPaused

C23_ScoreAndLinesNeverDecrease ==
    [][last'.op # "startGame" => (score' >= score /\ lines' >= lines)]_vars

\* A hard drop has locked a piece and cleared rows: score and lines have grown
\* by the drop points, the line points and the rows.
C23_Witness ==
    /\ last.op = "dropPiece"
    /\ last.result = "locked"
    /\ last.cleared >= 1
    /\ last.dist >= 1
    /\ lines >= last.cleared
    /\ score >= 2 * last.dist + 100

\* The interval the specification gives for a level.
StatedInterval(lvl) ==
    IF lvl <= 9
    THEN 1000 - (lvl - 1) * 100
    ELSE IF 200 - (lvl - 10) * 10 > 50 THEN 200 - (lvl - 10) * 10 ELSE 50

\* C24: the gravity interval is a function of level alone: 1000 - (level-1) x
\* 100 for 1 <= level <= 9 (1000 at level 1, 200 at level 9) and max(50, 200 -
\* (level-10) x 10) from level 10 on; it never grows with the level and is
\* never below 50.
C24_IntervalByLevel ==
    last.op = "dropInterval" =>
        /\ last.dist = StatedInterval(level)
        /\ level = 1 => last.dist = 1000
        /\ level = 9 => last.dist = 200
        /\ last.dist >= 50
        /\ \A higher \in level..(level + 30) : dropInterval(higher) <= last.dist

\* The delay has reached its floor of 50 ms at a level past 25.
C24_Witness ==
    /\ last.op = "dropInterval"
    /\ level > 25
    /\ last.dist = 50

\* C25: startLevel changes only while the session is NotStarted: in
\* Falling, LineClearing, Paused and GameOver a setStartLevel intent leaves
\* startLevel unchanged; and startLevel always stays within 1..30.
C25_StartLevelOnlyBeforeStart ==
    /\ [](startLevel \in 1..30)
    /\ [][startLevel' # startLevel => NotStarted]_vars

\* The session as a start leaves it, no piece locked yet.
Reset ==
    /\ gameStarted
    /\ board = EmptyBoard
    /\ score = 0
    /\ lines = 0

\* C26: a start resets the session unconditionally: from the start until the
\* first lock of the new session the board is all empty and score = lines =
\* 0, also when the previous session ended with a lock whose line-clear
\* animation had not committed its board when the start was issued.
C26_StartResetsUntilFirstLock ==
    [][/\ last'.op = "startGame" => Reset'
       /\ (Reset /\ last'.op # "startGame" /\ last'.result # "locked") =>
             Reset']_vars

\* The board with every locked piece placed and its full rows removed: the
\* board of the latest lock, committed or not.
LockedBoard(s) == IF s.pending = <<>> THEN s.board ELSE s.pending[Len(s.pending)]

\* The session as an engine that clears rows within the lock holds it.
Atomic(s) ==
    [s EXCEPT !.board = LockedBoard(s), !.pending = <<>>, !.isClearing = FALSE,
              !.last = NoEv]

\* The handler that the step recorded in ev went through.
Handled(s, ev, shuffle) ==
    CASE ev.op = "movePiece" -> movePiece(s, ev.dx, ev.dy, ev.player, shuffle)
      [] ev.op = "rotatePieceHandler" -> handleRotate(s)
      [] ev.op = "dropPiece" -> dropPiece(s, shuffle)
      [] ev.op = "togglePause" -> togglePause(s)

\* The shuffle outcomes a refill at this step can take.
ShufflesHere ==
    ShufflesFor(bag) \cup (IF perms = <<>> THEN {} ELSE {Head(perms)})

\* C27: row clearing is atomic with the lock: every move, rotate, hard drop
\* and gravity tick processed after a lock, also while the line-clear
\* animation runs, is validated against and applied to the board that holds
\* the locked piece with its full rows removed.
C27_ClearIsAtomicWithLock ==
    [][(Running /\ last'.op \in {"movePiece", "rotatePieceHandler", "dropPiece"}) =>
          \E shuffle \in ShufflesHere :
              Atomic(Sess') = Atomic(Handled(Atomic(Sess), last', shuffle))]_vars

\* C28: intents are applied one at a time, each to completion on the state the
\* previous one left: when a key follows a timer callback, the session is the
\* one its handler gives on the session the callback left; in particular a
\* piece that the tick has locked is locked once: one placement, one award of
\* lines and score, one spawn with one draw of a next piece.
C28_OneIntentAtATime ==
    [][last'.result = "stale" =>
          LET tick == last'.input[1]
              key == last'.input[2]
          IN  \E t \in {gameLoop(Sess, shuffle) : shuffle \in ShufflesHere} \cup
                        (IF pending # <<>> THEN {animationDone(Sess)} ELSE {}) :
                     /\ t.last = tick
                     /\ \E shuffle \in ShufflesFor(t.bag) :
                            Session' = [Handled(t, key, shuffle) EXCEPT !.last = NoEv]]_vars

\* Rows r to r + 3 of column c hold the color and the cells beside them do
\* not: a piece of four cells in a row stands upright there.
UprightAt(b, color, r, c) ==
    \A i \in 0..3 :
        /\ b[r + i][c] = color
        /\ c > 1 => b[r + i][c - 1] # color
        /\ c < 10 => b[r + i][c + 1] # color

\* C29: every piece that becomes the current piece, by a start or after a
\* lock, has the unrotated catalog shape and the color of its kind and stands
\* at row 0 and column floor((10 - width) / 2), whatever rotations earlier
\* pieces of its kind went through.
C29_SpawnsCatalogPieceAtTop ==
    [][(last'.result = "locked" \/ last'.op = "startGame") =>
          /\ \E k \in KeySet :
                 /\ currentPiece'.key = k
                 /\ currentPiece'.shape = TETROMINOS(k).shape
                 /\ currentPiece'.color = TETROMINOS(k).color
          /\ currentPosition'.y = 0
          /\ currentPosition'.x = (10 - Len(currentPiece'.shape[1])) \div 2]_vars

\* An I has become the current piece, flat as in the catalog, while an earlier
\* I that was turned upright stands locked on the board.
C29_Witness ==
    /\ last.result = "locked"
    /\ currentPiece.key = "I"
    /\ Len(currentPiece.shape) = 1
    /\ currentPosition = [x |-> 3, y |-> 0]
    /\ \E r \in 1..17 : \E c \in 1..10 : UprightAt(board, currentPiece.color, r, c)

\* C30: the board is changed only by a lock (placement of the piece and removal
\* of the full rows) and by a start; an accepted rotation changes only the
\* shape of the current piece and the current position; accepted moves,
\* rejected intents and togglePause leave every cell of the board unchanged.
C30_BoardChangesOnlyByLockOrStart ==
    [][/\ board' # board => (last'.result = "locked" \/ last'.op = "startGame")
       /\ last'.result = "rotated" =>
             Session' = [Session EXCEPT !.currentPiece.shape = currentPiece'.shape,
                                        !.currentPosition = currentPosition']
       /\ last'.result \in {"moved", "blocked", "rejected", "ignored", "toggled"} =>
             \A r \in 1..20 : \A c \in 1..10 : board'[r][c] = board[r][c]]_vars

\* C31: in every reachable state where the session is started and not
\* GameOver, the current piece at the current position is a valid placement on
\* the current board: inside the columns, above the floor, on no settled cell;
\* also while a line-clear animation runs and after it commits its board.
C31_CurrentPlacementValid ==
    (gameStarted /\ ~gameOver) =>
        \A cell \in PieceCells(currentPiece, currentPosition) :
            ~Offends(board, cell)

\* The number of occupied cells of board b.
Settled(b) ==
    Cardinality({rc \in (1..20) \X (1..10) : b[rc[1]][rc[2]] # EmptyCell})

\* C32: settled cells are conserved: a lock writes no cell that is occupied,
\* the board that a lock produces (set at once, or handed to the line-clear
\* animation) has 4 - 10 x (rows cleared) more occupied cells than the board
\* before it, and the commit of an animation discards no locked piece: the
\* board it sets differs from the one it replaces by the 4 cells of the piece
\* whose lock started it and the 10 cells of each row cleared.
C32_SettledCellsConserved ==
    [][/\ last'.result = "locked" =>
             LET lockPos == [currentPosition EXCEPT !.y = @ + last'.dist]
                 produced == IF last'.cleared > 0
                             THEN pending'[Len(pending')] ELSE board'
             IN  /\ \A cell \in PieceCells(currentPiece, lockPos) :
                        cell[1] >= 0 => board[cell[1] + 1][cell[2] + 1] = EmptyCell
                 /\ Settled(produced) = Settled(board) + 4 - 10 * last'.cleared
       /\ last'.op = "animateLineClear" =>
             \E k \in 1..4 : Settled(board') = Settled(board) + 4 - 10 * k]_vars

\* The session draws from a bag that holds bagIn: the key drawn and the keys
\* left, after a refill with the shuffle outcome if bagIn is empty.
NextDraw(bagIn, shuffle) ==
    LET from == IF bagIn = <<>> THEN shuffle ELSE bagIn
    IN  [key |-> from[Len(from)], rest |-> SubSeq(from, 1, Len(from) - 1)]

\* C33: within a session the pieces that become the current piece are the
\* successive draws from the bag since it was cleared at the start, in draw
\* order, none discarded and none carried over: a start makes the first draw
\* of the new bag the current piece and the second the next piece, and a lock
\* makes the next piece the current one and the following draw the next piece.
C33_PlayedPiecesAreTheDraws ==
    [][/\ last'.op = "startGame" =>
             \E shuffle \in Shuffles \cup ShufflesHere :
                 LET first == NextDraw(<<>>, shuffle)
                     second == NextDraw(first.rest, shuffle)
                 IN  /\ currentPiece'.key = first.key
                     /\ nextPiece'.key = second.key
                     /\ bag' = second.rest
       /\ last'.result = "locked" =>
             \E shuffle \in ShufflesHere :
                 LET draw == NextDraw(bag, shuffle)
                 IN  /\ currentPiece' = nextPiece
                     /\ nextPiece'.key = draw.key
                     /\ bag' = draw.rest]_vars

\* C34: while the session is started, unpaused and not GameOver, a gravity
\* tick eventually fires whatever moves and rotations the player issues in
\* between: an accepted player intent neither cancels nor restarts the pending
\* timeout of the game loop, whose time is counted from zero again only when
\* it has expired and the tick has fired.
C34_GravityTickEventuallyFires ==
    /\ Running ~> IsTick(last)
    /\ [][steps' < steps => IsTick(last')]_vars

\* The session after gravity ticks issued from s until one does not move the
\* piece.
RECURSIVE TicksUntilLock(_, _)
TicksUntilLock(s, shuffle) ==
    LET t == gameLoop(s, shuffle)
    IN  IF t.last.result = "moved" THEN TicksUntilLock(t, shuffle) ELSE t

\* The gravity ticks issued from s that move the piece down before one locks.
RECURSIVE RowsDescended(_, _)
RowsDescended(s, shuffle) ==
    LET t == gameLoop(s, shuffle)
    IN  IF t.last.result = "moved" THEN 1 + RowsDescended(t, shuffle) ELSE 0

\* A hard drop from a Falling state has descended rows, cleared a row and
\* spawned the next piece.
C35_Witness ==
    /\ last.op = "dropPiece"
    /\ last.result = "locked"
    /\ last.dist > 2
    /\ last.cleared > 0
    /\ Len(pending) = 1
    /\ ~gameOver

\* C35: a hard drop from a Falling state yields the same board, lines, level,
\* current piece, next piece and gameOver flag (and the same board handed to
\* the line-clear animation) as gravity ticks issued from that state until
\* one fails and locks; the score of the hard drop is the score of the ticks
\* plus 2 x (rows descended).
C35_HardDropEqualsTicksUntilLock ==
    [][(Falling /\ last'.op = "dropPiece") =>
          \E shuffle \in ShufflesHere :
              LET ticks == TicksUntilLock(Sess, shuffle)
              IN  /\ ticks.last.result = "locked"
                  /\ last'.result = "locked"
                  /\ board' = ticks.board
                  /\ pending' = ticks.pending
                  /\ lines' = ticks.lines
                  /\ level' = ticks.level
                  /\ currentPiece' = ticks.currentPiece
                  /\ nextPiece' = ticks.nextPiece
                  /\ gameOver' = ticks.gameOver
                  /\ score' = ticks.score + 2 * RowsDescended(Sess, shuffle)]_vars

\* C36: no board of the session state holds a full row: after every lock, with
\* or without cleared rows, and after every animation commit each of the 20
\* rows has an empty cell, and the board always has 20 rows of 10 cells.
C36_NoFullRowOnBoard ==
    /\ Len(board) = 20
    /\ \A r \in 1..20 :
           /\ Len(board[r]) = 10
           /\ \E c \in 1..10 : board[r][c] = EmptyCell

\* An animation has committed the board of a lock that cleared rows, and
\* settled cells remain on it.
C36_Witness ==
    /\ last.op = "animateLineClear"
    /\ last.result = "committed"
    /\ pending = <<>>
    /\ lines >= 2
    /\ board # EmptyBoard

\* C37: an accepted rotation never moves the piece downward and never shifts
\* it by more than one cell: the new position (x', y') has |x' - x| <= 1 and
\* y - 1 <= y' <= y; score, lines, level and next piece are unchanged.
C37_RotationShiftsAtMostOneCell ==
    [][last'.result = "rotated" =>
          /\ currentPosition'.x - currentPosition.x \in {-1, 0, 1}
          /\ currentPosition'.y - currentPosition.y \in {-1, 0}
          /\ score' = score
          /\ lines' = lines
          /\ level' = level
          /\ nextPiece' = nextPiece]_vars

\* A rotation accepted one row up, the top cell of the piece above the board.
C37_Witness ==
    /\ last.op = "rotatePieceHandler"
    /\ last.result = "rotated"
    /\ last.kick >= 4
    /\ currentPosition.y = -1
    /\ score > 0

\* The probes of the while loop of dropPiece started in the current state:
\* the rows the piece can descend, and the probe that fails.
Probes == DropY(board, currentPiece, currentPosition, currentPosition.y)
              - currentPosition.y + 1

\* The columns beside the spawn columns 3 to 6 hold no settled cell.
OuterColumnsEmpty(b) ==
    \A r \in 1..20 : \A c \in (1..3) \cup (8..10) : b[r][c] = EmptyCell

\* The current piece is as it was spawned but for its row.
AsSpawned ==
    /\ currentPiece # NoPiece
    /\ currentPiece.shape = TETROMINOS(currentPiece.key).shape
    /\ currentPosition.x = (10 - Len(currentPiece.shape[1])) \div 2

\* With gravity ticks delivered fairly and no player intent issued any more,
\* the session reaches GameOver; a tick on a piece as spawned, the columns
\* beside the spawn columns empty, leaves them empty and fills no row.
GravityEndsTheSession ==
    /\ (script = <<>> /\ gameStarted) ~> GameOver
    /\ [][(script = <<>> /\ IsTick(last') /\ AsSpawned
              /\ OuterColumnsEmpty(board)) =>
             (AsSpawned' /\ OuterColumnsEmpty(board') /\ lines' = lines)]_vars

Occupied(shape) ==
    {yx \in (1..Len(shape)) \X (1..Len(shape[1])) : shape[yx[1]][yx[2]] # 0}

\* Height and width of the smallest box around the occupied cells.
BoxHeight(shape) ==
    LET rows == {yx[1] : yx \in Occupied(shape)}
    IN  Cardinality(rows \cup {r \in 1..Len(shape) :
                                  (\E a \in rows : a < r) /\ (\E b \in rows : b > r)})

BoxWidth(shape) ==
    LET cols == {yx[2] : yx \in Occupied(shape)}
    IN  Cardinality(cols \cup {c \in 1..Len(shape[1]) :
                                  (\E a \in cols : a < c) /\ (\E b \in cols : b > c)})

\* C39: for each of the 7 catalog shapes, rotatePiece applied four times
\* returns the original shape, each single rotation exchanges the height and
\* the width of the bounding box, and every rotation has exactly 4 occupied
\* cells.
C39_FourRotationsAreIdentity ==
    [][last'.op = "rotatePiece" =>
          LET out == last'.input
          IN  /\ rotatePiece(rotatePiece(rotatePiece(out))) = currentPiece
              /\ BoxHeight(out.shape) = BoxWidth(currentPiece.shape)
              /\ BoxWidth(out.shape) = BoxHeight(currentPiece.shape)
              /\ Len(out.shape) = Len(currentPiece.shape[1])
              /\ Len(out.shape[1]) = Len(currentPiece.shape)
              /\ Cardinality(Occupied(currentPiece.shape)) = 4
              /\ Cardinality(Occupied(out.shape)) = 4]_vars

\* The S of the catalog has been turned: its box of 2 rows and 3 columns has
\* become one of 3 rows and 2 columns, and three more turns give the S back.
C39_Witness ==
    /\ last.op = "rotatePiece"
    /\ currentPiece = CatalogPiece("S")
    /\ BoxHeight(currentPiece.shape) = 2 /\ BoxWidth(currentPiece.shape) = 3
    /\ BoxHeight(last.input.shape) = 3 /\ BoxWidth(last.input.shape) = 2
    /\ last.input.shape # currentPiece.shape
    /\ RotN(last.input, 3) = currentPiece

============================================================================
